---------------------------- MODULE Spec2Model ----------------------------
(* A model of the Chinese-checkers game core: the hex board, the legal-move  *)
(* generator, the select / move / win state machine, the state import and    *)
(* export, and the agents (greedy, MCTS) with the manager that asks them.    *)
(* Positions are records [q, r, s]; board cells are keyed by <<q, r>>, as    *)
(* HexUtils.toKey keys them by "q,r".                                        *)
EXTENDS Integers, Sequences, FiniteSets, TLC

VARIABLES
    activePlayers,      \* gameState.config.activePlayers (turn order)
    board,              \* gameState.board: key -> occupant (the player field)
    currentPlayer,      \* gameState.currentPlayer
    currentPlayerIndex, \* gameState.currentPlayerIndex
    selectedPosition,   \* gameState.selectedPosition: <<>> is null, <<pos>> a position
    validMoves,         \* gameState.validMoves: a sequence of positions
    winner,             \* gameState.winner: <<>> is null, <<p>> a player
    op,                 \* the public method called last
    ret,                \* what that call returned (TRUE for the void methods)
    nMoves,             \* moves committed since construction or reset
    nImports,           \* records imported since construction or reset
    aiMove,             \* what an agent asked last returned: <<>> is null, <<move>> a move
    webState,           \* the GameState of the web game logic (app/utils/chineseCheckers)
    launchSettings,     \* GameSession.launchSettings: optional
    gameConfig,         \* GameScene.gameConfig, the runtime config: optional
    aiManager,          \* GameScene.aiManager, its config and its agents: optional
    mcts,               \* the search of MCTSAgent.getBestMove under way: optional
    turnManager,        \* GameScene.turnManager, its flag and its two handles: optional
    tasks,              \* FrameScheduler.tasks, in the order of insertion
    frame,              \* the parity of the number of frames the scheduler has flushed
    boardSystem,        \* GameScene.boardSystem, the cells of its piece meshes and of
                        \* its active highlights: optional
    observers           \* the observers registered with the scene: "frame" that of
                        \* the FrameScheduler, "pointer" that of the pointer system

\* The variables of the parts of the program beside the game core.
auxVars == <<webState, launchSettings, gameConfig, aiManager, mcts, turnManager,
            tasks, frame, boardSystem, observers>>

\* The variables of the game core, which the other parts leave alone.
coreVars == <<activePlayers, board, currentPlayer, currentPlayerIndex,
              selectedPosition, validMoves, winner, nImports, aiMove>>

vars == <<activePlayers, board, currentPlayer, currentPlayerIndex,
          selectedPosition, validMoves, winner, op, ret, nMoves, nImports,
          aiMove, auxVars>>

gameVars == <<board, currentPlayer, currentPlayerIndex,
              selectedPosition, validMoves, winner>>

-----------------------------------------------------------------------------
(* Bounds of the exploration.                                                *)

MaxMoves == 2

MaxImports == 1

-----------------------------------------------------------------------------
(* enum Player                                                               *)

NONE == 0

NORTH == 1

NORTH_EAST == 2

SOUTH_EAST == 3

SOUTH == 4

SOUTH_WEST == 5

NORTH_WEST == 6

\* BoardPosition.corner is optional: the central cells carry no corner.
NoCorner == -1

\* The numeric values of the enum.
PlayerNumbers == NONE..NORTH_WEST

\* A numeric enum compiles to an object that also maps each number back to its
\* name, so Object.values(Player) holds the seven names as well as the seven
\* numbers.  A name string is kept apart from every number as 10 + number.
PlayerName(p) == 10 + p

PlayerNames == {PlayerName(p) : p \in PlayerNumbers}

ObjectValuesPlayer == PlayerNames \cup PlayerNumbers

getOppositeCorner(player) ==
    CASE player = NORTH -> SOUTH
      [] player = NORTH_EAST -> SOUTH_WEST
      [] player = SOUTH_EAST -> NORTH_WEST
      [] player = SOUTH -> NORTH
      [] player = SOUTH_WEST -> NORTH_EAST
      [] player = NORTH_WEST -> SOUTH_EAST
      [] OTHER -> NONE

-----------------------------------------------------------------------------
(* HexUtils                                                                  *)

Pos(q, r) == [q |-> q, r |-> r, s |-> (0 - q) - r]

toKey(pos) == <<pos.q, pos.r>>

equals(a, b) == a.q = b.q /\ a.r = b.r

Abs(x) == IF x < 0 THEN 0 - x ELSE x

directions ==
    << [q |-> 1, r |-> 0, s |-> -1],
       [q |-> 1, r |-> -1, s |-> 0],
       [q |-> 0, r |-> -1, s |-> 1],
       [q |-> -1, r |-> 0, s |-> 1],
       [q |-> -1, r |-> 1, s |-> 0],
       [q |-> 0, r |-> 1, s |-> -1] >>

Plus(p, d) == [q |-> p.q + d.q, r |-> p.r + d.r, s |-> p.s + d.s]

getNeighbors(pos) == [i \in 1..6 |-> Plus(pos, directions[i])]

\* The radius of the central hexagon of createBoard.
CenterRadius == 4

\* HexUtils.CORNER_POSITIONS, as keys, in the order of the source.
CORNER_POSITIONS(corner) ==
    CASE corner = NORTH ->
           << <<4, -8>>, <<4, -7>>, <<3, -7>>, <<4, -6>>, <<3, -6>>, <<2, -6>>,
              <<4, -5>>, <<3, -5>>, <<2, -5>>, <<1, -5>> >>
      [] corner = NORTH_EAST ->
           << <<8, -4>>, <<7, -4>>, <<7, -3>>, <<6, -4>>, <<6, -3>>, <<6, -2>>,
              <<5, -4>>, <<5, -3>>, <<5, -2>>, <<5, -1>> >>
      [] corner = SOUTH_EAST ->
           << <<4, 4>>, <<4, 3>>, <<3, 4>>, <<4, 2>>, <<3, 3>>, <<2, 4>>,
              <<4, 1>>, <<3, 2>>, <<2, 3>>, <<1, 4>> >>
      [] corner = SOUTH ->
           << <<-4, 8>>, <<-4, 7>>, <<-3, 7>>, <<-4, 6>>, <<-3, 6>>, <<-2, 6>>,
              <<-4, 5>>, <<-3, 5>>, <<-2, 5>>, <<-1, 5>> >>
      [] corner = SOUTH_WEST ->
           << <<-8, 4>>, <<-7, 3>>, <<-7, 4>>, <<-6, 2>>, <<-6, 3>>, <<-6, 4>>,
              <<-5, 1>>, <<-5, 2>>, <<-5, 3>>, <<-5, 4>> >>
      [] corner = NORTH_WEST ->
           << <<-4, -4>>, <<-4, -3>>, <<-3, -4>>, <<-4, -2>>, <<-3, -3>>, <<-2, -4>>,
              <<-4, -1>>, <<-3, -2>>, <<-2, -3>>, <<-1, -4>> >>
      [] OTHER -> << >>

allCorners == <<NORTH, NORTH_EAST, SOUTH_EAST, SOUTH, SOUTH_WEST, NORTH_WEST>>

SeqRange(seq) == {seq[i] : i \in 1..Len(seq)}

\* The keys createBoard adds for the central hexagon.
CentralKeys ==
    {k \in (-CenterRadius..CenterRadius) \X (-CenterRadius..CenterRadius) :
        Abs((0 - k[1]) - k[2]) <= CenterRadius}

CornerKeys(corner) == SeqRange(CORNER_POSITIONS(corner))

\* Every key of the map createBoard returns.
BoardKeys == CentralKeys \cup UNION {CornerKeys(allCorners[i]) : i \in 1..6}

\* The corner field of the cell at a key: a corner cell is added after the
\* central cells and carries its corner, a central cell carries none.
CornerOf(key) ==
    IF \E i \in 1..6 : key \in CornerKeys(allCorners[i])
    THEN CHOOSE c \in SeqRange(allCorners) : key \in CornerKeys(c)
    ELSE NoCorner

Corner == [key \in BoardKeys |-> CornerOf(key)]

\* A variant of createBoard that gives every corner to its player, active or
\* not (sensitivity of C27).
createBoardAllCorners(active) ==
    [key \in BoardKeys |-> IF Corner[key] # NoCorner THEN Corner[key] ELSE NONE]

\* HexUtils.createBoard: the occupant of every cell for a configuration.
createBoard(active) ==
    [key \in BoardKeys |->
        IF Corner[key] # NoCorner /\ Corner[key] \in SeqRange(active)
        THEN Corner[key] ELSE NONE]

\* Board.createPieces: the cells that get a piece mesh, those that hold a
\* piece on the board.
OccupiedCells(b) == {key \in DOMAIN b : b[key] # NONE}


-----------------------------------------------------------------------------
(* GameLogic.calculateValidMoves / findJumpMoves                             *)

\* The bound of the long-jump scan: while (distance <= 10).
MaxScanDistance == 10

has(b, key) == key \in DOMAIN b

\* The closure hasPieceAt of findJumpMoves: the start cell counts as empty.
hasPieceAt(b, pos, originalStart) ==
    IF equals(pos, originalStart) THEN FALSE
    ELSE IF has(b, toKey(pos)) THEN b[toKey(pos)] # NONE ELSE FALSE

\* The landing spot of a jump from `from` over the piece at `over`.
Mirror(from, over) ==
    [q |-> over.q + (over.q - from.q),
     r |-> over.r + (over.r - from.r),
     s |-> over.s + (over.s - from.s)]

\* if (!moves.some(m => equals(m, jumpPos))) moves.push(jumpPos)
PushMove(st, jumpPos) ==
    IF \E i \in 1..Len(st.moves) : equals(st.moves[i], jumpPos)
    THEN st
    ELSE [st EXCEPT !.moves = Append(@, jumpPos)]

\* The landing test both jump types share: on the board, empty, not visited.
CanLand(b, st, jumpPos) ==
    /\ has(b, toKey(jumpPos))
    /\ b[toKey(jumpPos)] = NONE
    /\ toKey(jumpPos) \notin st.visited

RECURSIVE StepBy(_, _, _)
\* pos moved n times by dir.
StepBy(pos, dir, n) == IF n = 0 THEN pos ELSE StepBy(Plus(pos, dir), dir, n - 1)

\* A variant of pathClear that never looks at the cells behind the jumped
\* piece (sensitivity of C5).
pathClearAlways(b, nextPos, direction, distance, originalStart) == TRUE

\* The pathClear loop: the `distance` cells after the jumped piece are on the
\* board and empty, the start cell counting as empty.
pathClear(b, nextPos, direction, distance, originalStart) ==
    \A i \in 1..distance :
        LET checkPos == StepBy(nextPos, direction, i)
        IN  /\ has(b, toKey(checkPos))
            /\ (b[toKey(checkPos)] = NONE \/ equals(checkPos, originalStart))

\* A search that has expanded more coordinates than the board has cells can
\* only be one that expands a coordinate again; the evaluation stops there, so
\* that such a search shows as an over-long trail instead of never returning.
ExpansionBudget == Cardinality(BoardKeys) + 1

RECURSIVE findJumpMoves(_, _, _, _)
RECURSIVE JumpNeighbors(_, _, _, _)
RECURSIVE LongJumpScan(_, _, _, _, _, _, _)

\* The one element of a singleton set.
TheOne(S) == CHOOSE x \in S : TRUE

\* A variant of findJumpMoves that takes its coordinate out of visited when it
\* returns, as a backtracking search would (sensitivity of C6).
findJumpMovesForgets(b, from, st, originalStart) ==
    IF Len(st.trail) >= ExpansionBudget THEN st
    ELSE LET done == TheOne({JumpNeighbors(b, from, entered, originalStart) :
                        entered \in {[st EXCEPT !.visited = @ \cup {toKey(from)},
                                                !.trail = Append(@, toKey(from))]}})
         IN  [done EXCEPT !.visited = @ \ {toKey(from)}]

\* The while loop of the long jump: scan past empty cells to the first piece.
LongJumpScan(b, from, direction, currentPos, distance, st, originalStart) ==
    IF distance > MaxScanDistance THEN st
    ELSE
      LET nextPos == Plus(currentPos, direction) IN
      IF ~has(b, toKey(nextPos)) THEN st
      ELSE IF hasPieceAt(b, nextPos, originalStart)
      THEN LET jumpPos == Mirror(from, nextPos) IN
           IF CanLand(b, st, jumpPos)
              /\ pathClear(b, nextPos, direction, distance, originalStart)
           THEN findJumpMoves(b, jumpPos, PushMove(st, jumpPos), originalStart)
           ELSE st
      ELSE LongJumpScan(b, from, direction, nextPos, distance + 1, st, originalStart)

\* The body of neighbors.forEach for one neighbour.
JumpNeighbor(b, from, neighbor, st, originalStart) ==
    IF ~has(b, toKey(neighbor)) THEN st
    ELSE IF hasPieceAt(b, neighbor, originalStart)
    THEN LET jumpPos == Mirror(from, neighbor) IN
         IF CanLand(b, st, jumpPos)
         THEN findJumpMoves(b, jumpPos, PushMove(st, jumpPos), originalStart)
         ELSE st
    ELSE LongJumpScan(b, from,
                      [q |-> neighbor.q - from.q, r |-> neighbor.r - from.r,
                       s |-> neighbor.s - from.s],
                      neighbor, 1, st, originalStart)

\* neighbors.forEach: the callback runs for the six neighbours in the order of
\* the array, each on the state of the search the one before it left (s1 is
\* the state after the first neighbour, s5 the state after the fifth).
JumpNeighbors(b, from, st, originalStart) ==
    TheOne(UNION {UNION {UNION {UNION {UNION {
        {JumpNeighbor(b, from, getNeighbors(from)[6], s5, originalStart)}
        : s5 \in {JumpNeighbor(b, from, getNeighbors(from)[5], s4, originalStart)}}
        : s4 \in {JumpNeighbor(b, from, getNeighbors(from)[4], s3, originalStart)}}
        : s3 \in {JumpNeighbor(b, from, getNeighbors(from)[3], s2, originalStart)}}
        : s2 \in {JumpNeighbor(b, from, getNeighbors(from)[2], s1, originalStart)}}
        : s1 \in {JumpNeighbor(b, from, getNeighbors(from)[1], st, originalStart)}})

\* st = [moves, visited, trail]: the moves array, the visited set and, in
\* order, the coordinate of every call (every call adds its coordinate to
\* visited, so the trail is the order in which visited grew).
findJumpMoves(b, from, st, originalStart) ==
    IF Len(st.trail) >= ExpansionBudget THEN st
    ELSE JumpNeighbors(b, from,
                       [st EXCEPT !.visited = @ \cup {toKey(from)},
                                  !.trail = Append(@, toKey(from))],
                       originalStart)

\* The adjacent steps: the neighbours on the board that are empty, in order.
RECURSIVE AdjacentMoves(_, _, _)
AdjacentMoves(b, from, i) ==
    IF i > 6 THEN << >>
    ELSE LET neighbor == getNeighbors(from)[i] IN
         IF has(b, toKey(neighbor)) /\ b[toKey(neighbor)] = NONE
         THEN <<neighbor>> \o AdjacentMoves(b, from, i + 1)
         ELSE AdjacentMoves(b, from, i + 1)

\* calculateValidMoves with the visited set and the trail of the jump search.
JumpSearch(b, from) ==
    findJumpMoves(b, from,
                  [moves |-> AdjacentMoves(b, from, 1), visited |-> {}, trail |-> << >>],
                  from)

calculateValidMoves(b, from) == JumpSearch(b, from).moves


-----------------------------------------------------------------------------
(* GameLogic: constructor, selectPiece, movePiece, checkWin, deselectPiece,  *)
(* reset                                                                     *)

\* The piece count checkWin asks for: totalPieces === 10 && piecesInGoal === 10.
WinPieceCount == 10

\* The positions the callers pass to selectPiece and movePiece: cells of the
\* north corner and of the rows in front of it, two cells at the front of the
\* south corner, and one coordinate that is not on the board.  (Every piece a
\* property below speaks of starts from and lands on one of them.)
InputKeys ==
    {<<4, -8>>, <<2, -5>>, <<1, -5>>}
    \cup {<<0, -4>>, <<2, -4>>, <<4, -4>>, <<2, -2>>}
    \cup {<<-1, 5>>, <<-1, 4>>}
    \cup {<<99, 99>>}

InputPositions == {Pos(k[1], k[2]) : k \in InputKeys}

\* The configurations a session starts from: the 2-player default and the
\* 3-player preset.
Configs == { <<SOUTH, NORTH>>, <<NORTH, SOUTH_EAST, SOUTH_WEST>> }

\* activePlayers[index] ?? Player.NONE, with the 0-based index of the code.
PlayerAt(active, index) ==
    IF index + 1 \in 1..Len(active) THEN active[index + 1] ELSE NONE

\* The parts beside the game core before any of them is set up.
WebIdle == webState = << >>

SetupIdle == launchSettings = << >> /\ gameConfig = << >> /\ aiManager = << >>

MctsIdle == mcts = << >>

TurnIdle ==
    /\ turnManager = << >> /\ tasks = << >> /\ frame = 0 /\ boardSystem = << >>
    /\ observers = {}

AuxIdle == WebIdle /\ SetupIdle /\ MctsIdle /\ TurnIdle

\* The game core as constructed for the default game.
CoreIdle ==
    /\ activePlayers = <<SOUTH, NORTH>>
    /\ board = createBoard(activePlayers)
    /\ currentPlayer = PlayerAt(activePlayers, 0)
    /\ currentPlayerIndex = 0
    /\ selectedPosition = << >>
    /\ validMoves = << >>
    /\ winner = << >>
    /\ nImports = 0
    /\ aiMove = << >>

Init ==
    /\ activePlayers \in Configs
    /\ board = createBoard(activePlayers)
    /\ currentPlayer = PlayerAt(activePlayers, 0)
    /\ currentPlayerIndex = 0
    /\ selectedPosition = << >>
    /\ validMoves = << >>
    /\ winner = << >>
    /\ op = "constructor"
    /\ ret = TRUE
    /\ nMoves = 0
    /\ nImports = 0
    /\ aiMove = << >>
    /\ AuxIdle

\* selectPiece: whether the guard lets the selection through.
CanSelect(b, player, pos) == has(b, toKey(pos)) /\ b[toKey(pos)] = player

SelectPiece(pos) ==
    /\ op' = "selectPiece"
    /\ UNCHANGED auxVars
    /\ aiMove' = << >>
    /\ IF CanSelect(board, currentPlayer, pos)
       THEN /\ selectedPosition' = <<pos>>
            /\ validMoves' = calculateValidMoves(board, pos)
            /\ ret' = TRUE
       ELSE /\ ret' = FALSE
            /\ UNCHANGED <<selectedPosition, validMoves>>
    /\ UNCHANGED <<activePlayers, board, currentPlayer, currentPlayerIndex,
                   winner, nMoves, nImports>>

\* validMoves.some(move => equals(move, to))
IsValidMove(moves, to) == \E i \in 1..Len(moves) : equals(moves[i], to)

\* A variant of TransferPiece that leaves the origin occupied (sensitivity of
\* C1).
TransferPieceCopy(b, fromKey, toKey_) == [b EXCEPT ![toKey_] = b[fromKey]]

\* The two assignments of movePiece, in their order.
TransferPiece(b, fromKey, toKey_) ==
    LET moved == [b EXCEPT ![toKey_] = b[fromKey]]
    IN  [moved EXCEPT ![fromKey] = NONE]

\* A variant of checkWin that counts the pieces in the player's own corner
\* (sensitivity of C4).
checkWinOwnCorner(b, player) ==
    /\ Cardinality({k \in DOMAIN b : b[k] = player}) = WinPieceCount
    /\ Cardinality({k \in DOMAIN b : b[k] = player /\ Corner[k] = player})
          = WinPieceCount

checkWin(b, player) ==
    LET goalCorner == getOppositeCorner(player)
        totalPieces == Cardinality({k \in DOMAIN b : b[k] = player})
        piecesInGoal ==
            Cardinality({k \in DOMAIN b : b[k] = player /\ Corner[k] = goalCorner})
    IN  totalPieces = WinPieceCount /\ piecesInGoal = WinPieceCount

\* A variant of the early returns that drops the selection (sensitivity of
\* C8).
MoveRejectedClears ==
    /\ ret' = FALSE
    /\ selectedPosition' = << >>
    /\ validMoves' = << >>
    /\ UNCHANGED <<board, currentPlayer, currentPlayerIndex, winner, nMoves>>

\* The two early returns of movePiece.
MoveRejected ==
    /\ ret' = FALSE
    /\ UNCHANGED <<gameVars, nMoves>>

MovePiece(to) ==
    /\ nMoves < MaxMoves
    /\ op' = "movePiece"
    /\ UNCHANGED auxVars
    /\ aiMove' = << >>
    /\ IF selectedPosition = << >> \/ ~IsValidMove(validMoves, to)
       THEN MoveRejected
       ELSE LET moved == TransferPiece(board, toKey(selectedPosition[1]), toKey(to))
                totalPlayers == Len(activePlayers)
                nextIndex == (currentPlayerIndex + 1) % totalPlayers
            IN  /\ board' = moved
                /\ IF checkWin(moved, currentPlayer)
                   THEN /\ winner' = <<currentPlayer>>
                        /\ UNCHANGED <<currentPlayer, currentPlayerIndex>>
                   ELSE /\ winner' = winner
                        /\ IF totalPlayers > 0
                           THEN /\ currentPlayerIndex' = nextIndex
                                /\ currentPlayer' = PlayerAt(activePlayers, nextIndex)
                           ELSE UNCHANGED <<currentPlayer, currentPlayerIndex>>
                /\ selectedPosition' = << >>
                /\ validMoves' = << >>
                /\ ret' = TRUE
                /\ nMoves' = nMoves + 1
    /\ UNCHANGED <<activePlayers, nImports>>

DeselectPiece ==
    /\ op' = "deselectPiece"
    /\ UNCHANGED auxVars
    /\ aiMove' = << >>
    /\ ret' = TRUE
    /\ selectedPosition' = << >>
    /\ validMoves' = << >>
    /\ UNCHANGED <<activePlayers, board, currentPlayer, currentPlayerIndex,
                   winner, nMoves, nImports>>

\* reset(board, config), given a fresh board of the same configuration: the
\* state is the constructor's again, and the exploration starts over.
Reset ==
    /\ op' = "reset"
    /\ UNCHANGED auxVars
    /\ aiMove' = << >>
    /\ ret' = TRUE
    /\ board' = createBoard(activePlayers)
    /\ currentPlayer' = PlayerAt(activePlayers, 0)
    /\ currentPlayerIndex' = 0
    /\ selectedPosition' = << >>
    /\ validMoves' = << >>
    /\ winner' = << >>
    /\ nMoves' = 0
    /\ nImports' = 0
    /\ UNCHANGED activePlayers

-----------------------------------------------------------------------------
(* GameLogic.importState                                                     *)
(* The text handed to importState is modelled by what JSON.parse makes of    *)
(* it.  A JSON value is [t, num, den]: a number num/den in lowest terms, a   *)
(* string (num is PlayerName(p) for the text of an enum member's name, -1    *)
(* for any other text) or undefined (a field the object does not have).      *)

JNumber(n) == [t |-> "number", num |-> n, den |-> 1]

JFraction(n, d) == [t |-> "number", num |-> n, den |-> d]

JString(code) == [t |-> "string", num |-> code, den |-> 1]

JUndefined == [t |-> "undefined", num |-> 0, den |-> 1]

\* typeof v === 'number'
IsNumber(v) == v.t = "number"

\* Object.values(Player).includes(v)
IsPlayerValue(v) ==
    \/ v.t = "number" /\ v.den = 1 /\ v.num \in PlayerNumbers
    \/ v.t = "string" /\ v.num \in PlayerNames

\* HexUtils.toKey(piece) is `${piece.q},${piece.r}`: it reads q and r only, and
\* the text of a number that is not an integer is the key of no cell.
HasPieceKey(b, piece) ==
    /\ piece.q.den = 1
    /\ piece.r.den = 1
    /\ has(b, <<piece.q.num, piece.r.num>>)

PieceKey(piece) == <<piece.q.num, piece.r.num>>

\* One turn of the for loop over state.board: a throw (ok is FALSE) or the
\* map newBoardPlayers with the piece set in it, a later entry overwriting.
ValidatePiece(b, piece, newBoardPlayers) ==
    IF ~IsNumber(piece.q) \/ ~IsNumber(piece.r) \/ ~IsNumber(piece.s)
       \/ ~IsPlayerValue(piece.player)
    THEN [ok |-> FALSE, players |-> newBoardPlayers]
    ELSE IF ~HasPieceKey(b, piece)
    THEN [ok |-> FALSE, players |-> newBoardPlayers]
    ELSE [ok |-> TRUE,
          players |-> (PieceKey(piece) :> piece.player.num) @@ newBoardPlayers]

RECURSIVE ValidateRange(_, _, _, _, _)
\* The turns lo..hi of the loop, in order, stopping at the first throw.  (The
\* range is halved so that the evaluation does not nest once per tuple.)
ValidateRange(b, pieces, lo, hi, newBoardPlayers) ==
    IF lo > hi THEN [ok |-> TRUE, players |-> newBoardPlayers]
    ELSE IF lo = hi THEN ValidatePiece(b, pieces[lo], newBoardPlayers)
    ELSE LET mid == (lo + hi) \div 2 IN
         TheOne({ IF first.ok
                  THEN ValidateRange(b, pieces, mid + 1, hi, first.players)
                  ELSE first :
                    first \in {ValidateRange(b, pieces, lo, mid, newBoardPlayers)} })

\* The for loop over state.board from the i-th piece on.
ValidatePieces(b, pieces, i, newBoardPlayers) ==
    ValidateRange(b, pieces, i, Len(pieces), newBoardPlayers)

\* Everything importState checks before it changes the state.
ImportChecks(b, state) ==
    IF ~state.parses THEN [ok |-> FALSE, players |-> << >>]
    ELSE IF ~state.isObject \/ ~state.hasCurrentPlayer \/ ~state.hasBoard
    THEN [ok |-> FALSE, players |-> << >>]
    ELSE IF ~IsPlayerValue(state.currentPlayer)
    THEN [ok |-> FALSE, players |-> << >>]
    ELSE IF ~state.boardIsArray THEN [ok |-> FALSE, players |-> << >>]
    ELSE ValidatePieces(b, state.board, 1, << >>)

\* pos.player = newBoardPlayers.get(key) || Player.NONE, for every cell.
ApplyPlayers(b, newBoardPlayers) ==
    [k \in DOMAIN b |->
        IF k \in DOMAIN newBoardPlayers /\ newBoardPlayers[k] # 0
        THEN newBoardPlayers[k] ELSE NONE]

\* A variant of the catch block for an import that had assigned currentPlayer
\* before it validated the tuples (sensitivity of C9).
ImportRejectedPartial(state) ==
    /\ ret' = FALSE
    /\ currentPlayer' =
          IF state.parses /\ state.isObject /\ state.hasCurrentPlayer
             /\ state.currentPlayer.t = "number" /\ state.currentPlayer.den = 1
             /\ state.currentPlayer.num \in PlayerNumbers
          THEN state.currentPlayer.num ELSE currentPlayer
    /\ UNCHANGED <<board, currentPlayerIndex, selectedPosition, validMoves,
                   winner, nImports>>

\* The catch block of importState: every throw comes before the first
\* assignment to the state.
ImportRejected(state) ==
    /\ ret' = FALSE
    /\ UNCHANGED <<gameVars, nImports>>

\* A variant of the assignments of importState that leaves winner as it is
\* (sensitivity of C12).
ImportAcceptedKeepsWinner(state, newBoardPlayers) ==
    /\ currentPlayer' = state.currentPlayer.num
    /\ board' = ApplyPlayers(board, newBoardPlayers)
    /\ selectedPosition' = << >>
    /\ validMoves' = << >>
    /\ ret' = TRUE
    /\ UNCHANGED <<currentPlayerIndex, winner>>

\* The assignments of importState once every check has passed.
ImportAccepted(state, newBoardPlayers) ==
    /\ currentPlayer' = state.currentPlayer.num
    /\ board' = ApplyPlayers(board, newBoardPlayers)
    /\ selectedPosition' = << >>
    /\ validMoves' = << >>
    /\ winner' = << >>
    /\ ret' = TRUE
    /\ UNCHANGED currentPlayerIndex

ImportState(state) ==
    /\ nImports < MaxImports
    /\ op' = "importState"
    /\ UNCHANGED auxVars
    /\ aiMove' = << >>
    /\ LET checks == ImportChecks(board, state) IN
       IF checks.ok
       THEN /\ ImportAccepted(state, checks.players)
            /\ nImports' = nImports + 1
       ELSE ImportRejected(state)
    /\ UNCHANGED <<activePlayers, nMoves>>

-----------------------------------------------------------------------------
(* The records given to importState.                                         *)

Piece(q, r, player) ==
    [q |-> JNumber(q), r |-> JNumber(r), s |-> JNumber((0 - q) - r),
     player |-> JNumber(player)]

StateObject(player, pieces) ==
    [parses |-> TRUE, isObject |-> TRUE, hasCurrentPlayer |-> TRUE,
     hasBoard |-> TRUE, currentPlayer |-> player, boardIsArray |-> TRUE,
     board |-> pieces]

PiecesOf(keys, player) == [i \in 1..Len(keys) |-> Piece(keys[i][1], keys[i][2], player)]

-----------------------------------------------------------------------------
(* GameLogic.exportState, and importState applied to its result              *)

\* The pairs the two nested loops of createBoard run through: q in the outer
\* loop, r in the inner one.
CentralGrid ==
    [i \in 1..((2 * CenterRadius + 1) * (2 * CenterRadius + 1)) |->
        << ((i - 1) \div (2 * CenterRadius + 1)) - CenterRadius,
           ((i - 1) % (2 * CenterRadius + 1)) - CenterRadius >>]

\* The test inside the loops.
InCenter(key) ==
    /\ Abs(key[1]) <= CenterRadius
    /\ Abs(key[2]) <= CenterRadius
    /\ Abs((0 - key[1]) - key[2]) <= CenterRadius

\* The keys of the central cells in the order createBoard adds them.
CentralOrder == SelectSeq(CentralGrid, InCenter)

RECURSIVE CornerOrder(_)
\* The keys of the corner cells, corner after corner from the i-th on.
CornerOrder(i) ==
    IF i > Len(allCorners) THEN << >>
    ELSE CORNER_POSITIONS(allCorners[i]) \o CornerOrder(i + 1)

\* The order board.forEach visits the cells in: the order of insertion.
BoardOrder == CentralOrder \o CornerOrder(1)

\* What JSON.parse makes of a player value JSON.stringify has written: a
\* number stays a number, the name of an enum member stays a string.
JPlayer(p) == IF p \in PlayerNumbers THEN JNumber(p) ELSE JString(p)

\* A variant of exportState that writes the central cells only (sensitivity
\* of C13).
exportStateCentral(b, player) ==
    StateObject(JPlayer(player),
        [i \in 1..Len(CentralOrder) |->
            [Piece(CentralOrder[i][1], CentralOrder[i][2], NONE)
                EXCEPT !.player = JPlayer(b[CentralOrder[i]])]])

\* JSON.parse(exportState()): the current player and one tuple for every cell.
exportState(b, player) ==
    StateObject(JPlayer(player),
        [i \in 1..Len(BoardOrder) |->
            [Piece(BoardOrder[i][1], BoardOrder[i][2], NONE)
                EXCEPT !.player = JPlayer(b[BoardOrder[i]])]])

\* importState(exportState()).  The import brings no new board into the game,
\* so it is not counted as one.
ExportImport ==
    /\ op' = "importState(exportState())"
    /\ UNCHANGED auxVars
    /\ aiMove' = << >>
    /\ LET state == exportState(board, currentPlayer)
           checks == ImportChecks(board, state)
       IN  IF checks.ok
           THEN ImportAccepted(state, checks.players) /\ UNCHANGED nImports
           ELSE ImportRejected(state)
    /\ UNCHANGED <<activePlayers, nMoves>>

-----------------------------------------------------------------------------
(* MoveUtils: the helpers of the agents                                      *)

\* GOAL_CENTERS, with the s each entry is written with.
GOAL_CENTERS(corner) ==
    CASE corner = NONE -> [q |-> 0, r |-> 0, s |-> 0]
      [] corner = NORTH -> [q |-> -4, r |-> 8, s |-> 4]
      [] corner = NORTH_EAST -> [q |-> 8, r |-> -4, s |-> -4]
      [] corner = SOUTH_EAST -> [q |-> 4, r |-> 4, s |-> -8]
      [] corner = SOUTH -> [q |-> -4, r |-> 8, s |-> -4]
      [] corner = SOUTH_WEST -> [q |-> -8, r |-> 4, s |-> 4]
      [] corner = NORTH_WEST -> [q |-> -4, r |-> -8, s |-> 12]

\* GOAL_CENTERS[corner] || GOAL_CENTERS[0]
getCornerCenter(corner) ==
    IF corner \in PlayerNumbers THEN GOAL_CENTERS(corner) ELSE GOAL_CENTERS(NONE)

\* n / 2 as a number in lowest terms.
Half(n) == IF n % 2 = 0 THEN JNumber(n \div 2) ELSE JFraction(n, 2)

\* HexUtils.distance: (|dq| + |dr| + |ds|) / 2.
distance(a, b) == Half(Abs(a.q - b.q) + Abs(a.r - b.r) + Abs(a.s - b.s))

\* x - y for two numbers that are whole or halves.
Minus(x, y) == Half(x.num * (2 \div x.den) - y.num * (2 \div y.den))

\* -Infinity: below every number in the comparison Less.
NegInfinity == JFraction(-1, 0)

\* x < y
Less(x, y) == x.num * y.den < y.num * x.den

\* A variant of cloneBoard that puts the cell objects of the board it is given
\* into the new map instead of copies of them (sensitivity of C15).
cloneBoardShared(b) == [cells |-> b, shared |-> TRUE]

\* cloneBoard: a new map whose cells are copies ({ ...pos }), so that a write
\* to a cell of the clone does not reach the board it was made from.
cloneBoard(b) == [cells |-> b, shared |-> FALSE]

\* applyMove: the board it returns, and the board it was passed as the call
\* leaves it.
applyMove(b, move) ==
    LET newBoard == cloneBoard(b)
        fromKey == toKey(move.from)
        toKey_ == toKey(move.to)
        written == IF has(newBoard.cells, fromKey) /\ has(newBoard.cells, toKey_)
                   THEN TransferPiece(newBoard.cells, fromKey, toKey_)
                   ELSE newBoard.cells
    IN  [result |-> written,
         passed |-> IF newBoard.shared THEN written ELSE b]

RECURSIVE MoveUtils_findJumpMoves(_, _, _, _)
RECURSIVE MoveUtils_JumpNeighbors(_, _, _, _)
RECURSIVE MoveUtils_LongJumpScan(_, _, _, _, _, _, _)

\* A long jump that finds nothing (sensitivity of C32).
MoveUtils_LongJumpScanNone(b, from, direction, currentPos, distance_, st, originalStart) == st

\* The while loop of the long jump of MoveUtils: the landing is pushed and
\* searched from only when moves does not hold it yet.
MoveUtils_LongJumpScan(b, from, direction, currentPos, distance_, st, originalStart) ==
    IF distance_ > MaxScanDistance THEN st
    ELSE
      LET nextPos == Plus(currentPos, direction) IN
      IF ~has(b, toKey(nextPos)) THEN st
      ELSE IF hasPieceAt(b, nextPos, originalStart)
      THEN LET jumpPos == Mirror(from, nextPos) IN
           IF CanLand(b, st, jumpPos)
              /\ pathClear(b, nextPos, direction, distance_, originalStart)
              /\ ~IsValidMove(st.moves, jumpPos)
           THEN MoveUtils_findJumpMoves(b, jumpPos, PushMove(st, jumpPos),
                                        originalStart)
           ELSE st
      ELSE MoveUtils_LongJumpScan(b, from, direction, nextPos, distance_ + 1, st,
                                  originalStart)

\* The body of neighbors.forEach of MoveUtils for one neighbour.
MoveUtils_JumpNeighbor(b, from, neighbor, st, originalStart) ==
    IF ~has(b, toKey(neighbor)) THEN st
    ELSE IF hasPieceAt(b, neighbor, originalStart)
    THEN LET jumpPos == Mirror(from, neighbor) IN
         IF CanLand(b, st, jumpPos)
         THEN MoveUtils_findJumpMoves(b, jumpPos, PushMove(st, jumpPos),
                                      originalStart)
         ELSE st
    ELSE MoveUtils_LongJumpScan(b, from,
                                [q |-> neighbor.q - from.q, r |-> neighbor.r - from.r,
                                 s |-> neighbor.s - from.s],
                                neighbor, 1, st, originalStart)

MoveUtils_JumpNeighbors(b, from, st, originalStart) ==
    TheOne(UNION {UNION {UNION {UNION {UNION {
        {MoveUtils_JumpNeighbor(b, from, getNeighbors(from)[6], s5, originalStart)}
        : s5 \in {MoveUtils_JumpNeighbor(b, from, getNeighbors(from)[5], s4, originalStart)}}
        : s4 \in {MoveUtils_JumpNeighbor(b, from, getNeighbors(from)[4], s3, originalStart)}}
        : s3 \in {MoveUtils_JumpNeighbor(b, from, getNeighbors(from)[3], s2, originalStart)}}
        : s2 \in {MoveUtils_JumpNeighbor(b, from, getNeighbors(from)[2], s1, originalStart)}}
        : s1 \in {MoveUtils_JumpNeighbor(b, from, getNeighbors(from)[1], st, originalStart)}})

\* findJumpMoves of MoveUtils, on the state [moves, visited, trail] of the
\* search of GameLogic.
MoveUtils_findJumpMoves(b, from, st, originalStart) ==
    IF Len(st.trail) >= ExpansionBudget THEN st
    ELSE MoveUtils_JumpNeighbors(b, from,
                       [st EXCEPT !.visited = @ \cup {toKey(from)},
                                  !.trail = Append(@, toKey(from))],
                       originalStart)

\* calculateValidMoves of MoveUtils.
MoveUtils_calculateValidMoves(b, from) ==
    MoveUtils_findJumpMoves(b, from,
        [moves |-> AdjacentMoves(b, from, 1), visited |-> {}, trail |-> << >>],
        from).moves

\* { from: { q, r, s }, to } for each destination of the piece at pos.
MovesFrom(pos, validMoves_) ==
    [i \in 1..Len(validMoves_) |-> [from |-> pos, to |-> validMoves_[i]]]

\* The moves of one piece.
MovesOfPiece(b, key) ==
    MovesFrom(Pos(key[1], key[2]),
              MoveUtils_calculateValidMoves(b, Pos(key[1], key[2])))

RECURSIVE MovesOfPieces(_, _, _, _)
\* The moves of the pieces at cells[lo..hi], piece after piece.  (The range
\* is halved so that the evaluation does not nest once per piece.)
MovesOfPieces(b, cells, lo, hi) ==
    IF lo > hi THEN << >>
    ELSE IF lo = hi THEN MovesOfPiece(b, cells[lo])
    ELSE LET mid == (lo + hi) \div 2 IN
         MovesOfPieces(b, cells, lo, mid) \o MovesOfPieces(b, cells, mid + 1, hi)

\* A variant of getAllPossibleMoves that moves the pieces of every player
\* (sensitivity of C16).
getAllPossibleMovesOfAnyone(b, player) ==
    LET occupied(key) == b[key] # NONE
        cells == SelectSeq(BoardOrder, occupied)
    IN  MovesOfPieces(b, cells, 1, Len(cells))

\* getAllPossibleMoves: board.forEach visits the cells in the order of
\* insertion and takes those with pos.player === player.
getAllPossibleMoves(b, player) ==
    LET mine(key) == b[key] = player
        cells == SelectSeq(BoardOrder, mine)
    IN  MovesOfPieces(b, cells, 1, Len(cells))

\* evaluateForwardProgress: the score, and the board it was passed as the call
\* leaves it.
evaluateForwardProgress(move, b, player) ==
    LET goalCorner == getOppositeCorner(player)
        goalCenter == getCornerCenter(goalCorner)
        fromDistance == distance(move.from, goalCenter)
        simulated == applyMove(b, move)
        toKey_ == toKey(move.to)
    IN  IF ~has(simulated.result, toKey_)
        THEN [value |-> NegInfinity, passed |-> simulated.passed]
        ELSE LET toPos == Pos(toKey_[1], toKey_[2])
                 toDistance == distance(toPos, goalCenter)
             IN  [value |-> Minus(fromDistance, toDistance),
                  passed |-> simulated.passed]

-----------------------------------------------------------------------------
(* GreedyAgent                                                               *)

\* One turn of moves.map(...): the entry { move, progress, finalDistance }
\* and the board as the call leaves it.
ScoreMove(move, b, player) ==
    LET goalCenter == getCornerCenter(getOppositeCorner(player))
        evaluated == evaluateForwardProgress(move, b, player)
    IN  [scored |-> << [move |-> move, progress |-> evaluated.value,
                        finalDistance |-> distance(move.to, goalCenter)] >>,
         passed |-> evaluated.passed]

RECURSIVE ScoreMoves(_, _, _, _, _)
\* moves.map(...) over moves[lo..hi]: the entries in order and the board as
\* the calls leave it.  (The range is halved so that the evaluation does not
\* nest once per move.)
ScoreMoves(moves, lo, hi, b, player) ==
    IF lo > hi THEN [scored |-> << >>, passed |-> b]
    ELSE IF lo = hi THEN ScoreMove(moves[lo], b, player)
    ELSE LET mid == (lo + hi) \div 2 IN
         TheOne({ TheOne({ [scored |-> first.scored \o rest.scored,
                            passed |-> rest.passed] :
                             rest \in {ScoreMoves(moves, mid + 1, hi, first.passed,
                                                  player)} }) :
                    first \in {ScoreMoves(moves, lo, mid, b, player)} })

\* The comparator of the sort is negative: a goes before b.
GoesBefore(a, b) ==
    \/ Less(b.progress, a.progress)
    \/ a.progress = b.progress /\ Less(a.finalDistance, b.finalDistance)

\* A variant of the sort that leaves the entries in the order of the moves
\* (sensitivity of C18).
SortScoredSkipped(scored) == scored

\* scoredMoves.sort(...): by progress, the larger first, then by
\* finalDistance, the smaller first; the sort is stable, so an entry goes
\* behind the entries that go before it and the earlier ones it ties with.
SortScored(scored) ==
    LET n == Len(scored)
        ahead == [i \in 1..n |->
                    Cardinality({j \in 1..n :
                        \/ GoesBefore(scored[j], scored[i])
                        \/ j < i /\ ~GoesBefore(scored[i], scored[j])})]
    IN  [k \in 1..n |-> scored[CHOOSE i \in 1..n : ahead[i] = k - 1]]

\* getBestMove up to the random choice: the entries it chooses among, and the
\* board as it leaves it.
GreedyBestMoves(b, player) ==
    LET moves == getAllPossibleMoves(b, player) IN
    IF Len(moves) = 0 THEN [bestMoves |-> << >>, passed |-> b]
    ELSE LET scoring == ScoreMoves(moves, 1, Len(moves), b, player)
             scoredMoves == SortScored(scoring.scored)
             bestScore == scoredMoves[1].progress
             isBest(entry) == entry.progress = bestScore
         IN  [bestMoves |-> SelectSeq(scoredMoves, isBest), passed |-> scoring.passed]

\* The random choice among bestMoves and the move returned.  random stands
\* for the draw of Math.random(): a natural number, of which
\* Math.floor(Math.random() * length) is the remainder by length.
GreedyChoice(best, random) ==
    IF Len(best.bestMoves) > 0
    THEN LET chosen == best.bestMoves[(random % Len(best.bestMoves)) + 1]
         IN  [move |-> << [from |-> chosen.move.from, to |-> chosen.move.to,
                           score |-> chosen.progress] >>,
              passed |-> best.passed]
    ELSE [move |-> << >>, passed |-> best.passed]

\* GreedyAgent.getBestMove.
GreedyAgent_getBestMove(b, player, random) ==
    GreedyChoice(GreedyBestMoves(b, player), random)

-----------------------------------------------------------------------------
(* MCTSNode, MCTSAgent                                                       *)

\* new MCTSNode(board, playerId, parent, move): the node keeps a deep clone of
\* the board, a new map with a new object for every cell, so that a write to
\* a cell of the node's board does not reach the board the node was made
\* from (shared is false); move is <<>> for null.
MCTSNode(b, move) ==
    [board |-> b, shared |-> FALSE, move |-> move, children |-> << >>, wins |-> 0,
     visits |-> 0, untriedMoves |-> << >>]

\* The iterations the time limit lets the loop make: none (the limit is over
\* at the first test) or one.
MctsIterations == {0, 1}

\* A variant of expand that leaves the move among the untried moves
\* (sensitivity of C23).
expandKeepsMove(node, player, moveIndex) ==
    LET move == node.untriedMoves[moveIndex + 1]
        newBoard == applyMove(node.board, move)
        childNode == [MCTSNode(newBoard.result, <<move>>)
                        EXCEPT !.untriedMoves =
                                  getAllPossibleMoves(newBoard.result, player)]
    IN  [node EXCEPT !.children = Append(@, childNode),
                     !.board = newBoard.passed]

\* expand: the move at moveIndex is spliced out of untriedMoves and the child
\* made from it, on the node's own board with the move applied, is pushed.
expand(node, player, moveIndex) ==
    LET move == node.untriedMoves[moveIndex + 1]
        newBoard == applyMove(node.board, move)
        childNode == [MCTSNode(newBoard.result, <<move>>)
                        EXCEPT !.untriedMoves =
                                  getAllPossibleMoves(newBoard.result, player)]
    IN  [node EXCEPT !.untriedMoves =
                        SubSeq(@, 1, moveIndex) \o SubSeq(@, moveIndex + 2, Len(@)),
                     !.children = Append(@, childNode),
                     !.board = newBoard.passed]

\* mostVisitedChild: the first child with the most visits; <<>> is null.
mostVisitedChild(node) ==
    IF Len(node.children) = 0 THEN << >>
    ELSE LET best == CHOOSE i \in 1..Len(node.children) :
                        /\ \A j \in 1..Len(node.children) :
                              node.children[j].visits <= node.children[i].visits
                        /\ \A j \in 1..(i - 1) :
                              node.children[j].visits < node.children[i].visits
         IN  <<node.children[best]>>

\* The root of the search: a node on the board passed, its untried moves the
\* moves of the agent's player.
MctsRoot(b, player) ==
    [MCTSNode(b, << >>) EXCEPT !.untriedMoves = getAllPossibleMoves(b, player)]

\* A variant of the search without the fallback to an untried move
\* (sensitivity of C17).
MctsSearchNoFallback(root, player, iterations, random) ==
    IF Len(root.untriedMoves) = 0 \/ iterations = 0 THEN << >>
    ELSE <<root.untriedMoves[(random % Len(root.untriedMoves)) + 1]>>

\* getBestMove from the root on, when the loop makes `iterations` iterations;
\* random stands for the one draw of Math.random() (in expand when there is
\* an iteration, in the fallback when there is none).  In its one iteration
\* the loop selects the root, which has untried moves, expands it, and the
\* backpropagation from the child (whatever the simulation returned) counts
\* one visit for the child and one for the root.
MctsSearch(root, player, iterations, random) ==
    IF Len(root.untriedMoves) = 0 THEN << >>
    ELSE LET index == random % Len(root.untriedMoves)
             expanded == expand(root, player, index)
             visited == [expanded EXCEPT
                            !.visits = @ + 1,
                            !.children[Len(expanded.children)].visits = @ + 1]
             searched == IF iterations = 0 THEN root ELSE visited
             bestChild == mostVisitedChild(searched)
         IN  IF bestChild # << >> /\ bestChild[1].move # << >>
             THEN bestChild[1].move
             ELSE IF Len(searched.untriedMoves) > 0
             THEN <<searched.untriedMoves[(random % Len(searched.untriedMoves)) + 1]>>
             ELSE << >>

\* The root as the loop of getBestMove leaves it: in its one iteration the
\* root is expanded, and applyMove is called on the board of the root.  (The
\* simulation that follows starts from a copy of the board of the child and
\* writes to boards of its own; the search is followed step by step, the
\* simulations included, further below.)
MctsSearched(root, player, iterations, random) ==
    IF Len(root.untriedMoves) = 0 \/ iterations = 0 THEN root
    ELSE expand(root, player, random % Len(root.untriedMoves))

\* The board getBestMove was passed as the search leaves it: the search
\* writes to the boards of its nodes only, and the board of the root is the
\* clone the constructor of MCTSNode made of the board passed.
MctsPassed(searched, b) == IF searched.shared THEN searched.board ELSE b

\* MCTSAgent.getBestMove from the root on: the move returned and the board
\* passed as the call leaves it.
MctsAnswer(root, b, player, iterations, random) ==
    [move |-> MctsSearch(root, player, iterations, random),
     passed |-> MctsPassed(MctsSearched(root, player, iterations, random), b)]

\* MCTSAgent.getBestMove.
MCTSAgent_getBestMove(b, player, iterations, random) ==
    MctsAnswer(MctsRoot(b, player), b, player, iterations, random)

-----------------------------------------------------------------------------
(* AIManager                                                                 *)

\* The agent the AIManager holds for a player: none, a greedy or an MCTS one.
AgentKinds == {"none", "greedy", "mcts"}

\* { from: move.from, to: move.to } of the agent's answer, or null.
FromTo(answer) ==
    IF answer = << >> THEN << >>
    ELSE << [from |-> answer[1].from, to |-> answer[1].to] >>

\* What getAIMove makes of the answer of the agent it forwarded the board
\* to: { from, to } of the move, and the board as the agent left it.
Forwarded(answer) == [move |-> FromTo(answer.move), passed |-> answer.passed]

\* AIManager.getAIMove, and the board it was passed as the call leaves it.
\* Without an agent for the player null is returned before the board is
\* handed to anyone.
AIManager_getAIMove(kind, player, b, iterations, random) ==
    IF kind = "greedy"
    THEN Forwarded(GreedyAgent_getBestMove(b, player, random))
    ELSE IF kind = "mcts"
    THEN Forwarded(MCTSAgent_getBestMove(b, player, iterations, random))
    ELSE [move |-> << >>, passed |-> b]

-----------------------------------------------------------------------------
(* The agents asked for a move of the player to move, on the live board, as  *)
(* the turn manager asks them.  checkAITurn runs at start, after a           *)
(* successful import and 350 ms after every committed move; it engages the   *)
(* agent of the player to move when there is no winner, and the agent is     *)
(* asked 500 ms later.  While the agent is to move the pointer handlers      *)
(* that select and move are locked, so the call of the game logic that came  *)
(* last is the construction, a reset, a committed move, a deselection        *)
(* (onEmpty) or an import, accepted or not.                                  *)

\* aiManager.isAIPlayer(currentPlayer) && !state.winner: an agent exists for
\* players of the configuration only; the answer is to be played, so none is
\* asked once MaxMoves moves are made.
AgentCallable ==
    /\ currentPlayer \in SeqRange(activePlayers)
    /\ winner = << >>
    /\ nMoves < MaxMoves
    /\ \/ op \in {"constructor", "reset", "deselectPiece", "importState",
                  "importState(exportState())"}
       \/ op = "movePiece" /\ ret = TRUE

\* The draws of Math.random() that tell the choices among `length` moves
\* apart.
RandomDraws(length) == IF length = 0 THEN {0} ELSE 0..(length - 1)

GreedyGetBestMove ==
    /\ AgentCallable
    /\ op' = "GreedyAgent.getBestMove"
    /\ UNCHANGED auxVars
    /\ \E best \in {GreedyBestMoves(board, currentPlayer)} :
       \E random \in RandomDraws(Len(best.bestMoves)) :
       \E answer \in {GreedyChoice(best, random)} :
          /\ aiMove' = answer.move
          /\ board' = answer.passed
    /\ ret' = TRUE
    /\ UNCHANGED <<activePlayers, currentPlayer, currentPlayerIndex,
                   selectedPosition, validMoves, winner, nMoves, nImports>>

MctsGetBestMove ==
    /\ AgentCallable
    /\ op' = "MCTSAgent.getBestMove"
    /\ UNCHANGED auxVars
    /\ \E root \in {MctsRoot(board, currentPlayer)} :
       \E iterations \in MctsIterations :
       \E random \in RandomDraws(Len(root.untriedMoves)) :
       \E answer \in {MctsAnswer(root, board, currentPlayer, iterations, random)} :
          /\ aiMove' = answer.move
          /\ board' = answer.passed
    /\ ret' = TRUE
    /\ UNCHANGED <<activePlayers, currentPlayer, currentPlayerIndex,
                   selectedPosition, validMoves, winner, nMoves, nImports>>

GetAIMove ==
    /\ AgentCallable
    /\ op' = "AIManager.getAIMove"
    /\ UNCHANGED auxVars
    /\ \/ \E answer \in {AIManager_getAIMove("none", currentPlayer, board, 0, 0)} :
             /\ aiMove' = answer.move
             /\ board' = answer.passed
       \/ \E best \in {GreedyBestMoves(board, currentPlayer)} :
          \E random \in RandomDraws(Len(best.bestMoves)) :
          \E answer \in {Forwarded(GreedyChoice(best, random))} :
             /\ aiMove' = answer.move
             /\ board' = answer.passed
       \/ \E root \in {MctsRoot(board, currentPlayer)} :
          \E iterations \in MctsIterations :
          \E random \in RandomDraws(Len(root.untriedMoves)) :
          \E answer \in {Forwarded(MctsAnswer(root, board, currentPlayer,
                                              iterations, random))} :
             /\ aiMove' = answer.move
             /\ board' = answer.passed
    /\ ret' = TRUE
    /\ UNCHANGED <<activePlayers, currentPlayer, currentPlayerIndex,
                   selectedPosition, validMoves, winner, nMoves, nImports>>

-----------------------------------------------------------------------------
(* The records the properties give to importState.                           *)

\* Text that is not JSON: JSON.parse throws.
NotJson == [StateObject(JNumber(NONE), << >>) EXCEPT !.parses = FALSE]

\* An object without the board property.
NoBoardField == [StateObject(JNumber(SOUTH), << >>) EXCEPT !.hasBoard = FALSE]

\* South to move, one step from a win: nine south pieces in the north corner,
\* the tenth in front of the one free goal cell, one north piece beside it.
NearWin ==
    StateObject(JNumber(SOUTH),
        PiecesOf(<< <<4, -8>>, <<4, -7>>, <<3, -7>>, <<4, -6>>, <<3, -6>>, <<2, -6>>,
                    <<4, -5>>, <<3, -5>>, <<1, -5>>, <<2, -4>> >>, SOUTH)
        \o PiecesOf(<< <<3, -4>> >>, NORTH))

\* The start position of the 2-player game with north to move.
NorthToMove ==
    StateObject(JNumber(NORTH),
        PiecesOf(CORNER_POSITIONS(SOUTH), SOUTH) \o PiecesOf(CORNER_POSITIONS(NORTH), NORTH))

\* No player to move and no piece on the board.
NobodyToMove == StateObject(JNumber(NONE), << >>)

\* North to move among scattered pieces; two tuples carry an s that is not
\* -q-r: one a wrong integer, one not an integer; the cell (2,-3) is listed
\* twice, for north and then for south.
Scattered ==
    StateObject(JNumber(NORTH),
        << Piece(4, -8, NORTH),
           Piece(4, -6, SOUTH),
           [Piece(3, -4, SOUTH) EXCEPT !.s = JNumber(9)],
           [Piece(1, -4, NORTH) EXCEPT !.s = JFraction(1, 2)],
           Piece(2, -6, NORTH),
           Piece(1, -5, NORTH),
           Piece(2, -3, NORTH),
           Piece(2, -3, SOUTH),
           Piece(0, -3, SOUTH),
           Piece(1, -2, NORTH),
           Piece(-1, -3, SOUTH),
           Piece(-2, -2, SOUTH) >>)

\* A tuple on the board followed by one at (99, 99, -198).
OffBoardTuple ==
    StateObject(JNumber(NORTH), << Piece(0, 0, NORTH), Piece(99, 99, SOUTH) >>)

\* A tuple whose q is 1/2.
FractionalQ ==
    StateObject(JNumber(NORTH),
        << [Piece(0, 0, NORTH) EXCEPT !.q = JFraction(1, 2), !.s = JFraction(-1, 2)] >>)

\* A tuple whose player is 7, and one whose r is missing.
BadPlayer == StateObject(JNumber(NORTH), << Piece(0, 0, 7) >>)

MissingR ==
    StateObject(JNumber(NORTH), << [Piece(0, 0, NORTH) EXCEPT !.r = JUndefined] >>)

\* The players given by the names of the enum members: "NORTH" to move, and
\* one tuple for "SOUTH".
NamedPlayers ==
    StateObject(JString(PlayerName(NORTH)),
        << [Piece(4, -8, NONE) EXCEPT !.player = JString(PlayerName(SOUTH))] >>)

\* North to move without a piece on the board: one south piece at home.
NorthHasNoPiece == StateObject(JNumber(NORTH), PiecesOf(<< <<-4, 8>> >>, SOUTH))

ImportInputs ==
    {NotJson, NoBoardField, NearWin, NorthToMove, NobodyToMove, Scattered,
     OffBoardTuple, FractionalQ, BadPlayer, MissingR, NamedPlayers,
     NorthHasNoPiece}

-----------------------------------------------------------------------------

Next ==
    \/ \E pos \in InputPositions : SelectPiece(pos)
    \/ \E to \in InputPositions : MovePiece(to)
    \/ DeselectPiece
    \/ Reset
    \/ \E state \in ImportInputs : ImportState(state)
    \/ ExportImport
    \/ GreedyGetBestMove
    \/ MctsGetBestMove
    \/ GetAIMove

Spec == Init /\ [][Next]_vars

-----------------------------------------------------------------------------
(* What the properties below compare the program with.                       *)

\* The cell j steps from the cell c in the direction d.
At(c, d, j) == <<c[1] + j * d.q, c[2] + j * d.r>>

\* A cell a move may pass or land on: on the board and empty, the origin of
\* the moving piece counting as empty.
FreeFor(b, origin, key) == key \in DOMAIN b /\ (b[key] = NONE \/ key = origin)

\* No line of the board has more than 3 * CenterRadius + 1 cells, so a jumped
\* piece is never more than 2 * CenterRadius cells away.
JumpReach == 2 * CenterRadius

\* The landings of one jump from c: over exactly one occupied cell k steps
\* away onto the cell 2k steps away, everything strictly between being free.
OneJump(b, origin, c) ==
    { At(c, directions[p[1]], 2 * p[2]) :
        p \in { x \in (1..6) \X (1..JumpReach) :
                  LET d == directions[x[1]]
                      k == x[2]
                  IN  /\ At(c, d, k) \in DOMAIN b
                      /\ At(c, d, k) # origin
                      /\ b[At(c, d, k)] # NONE
                      /\ FreeFor(b, origin, At(c, d, 2 * k))
                      /\ \A j \in (1..(2 * k - 1)) \ {k} :
                            FreeFor(b, origin, At(c, d, j)) } }

RECURSIVE JumpClosure(_, _, _, _)
\* The cells reachable from the frontier by zero or more jumps.
JumpClosure(b, origin, frontier, seen) ==
    IF frontier = {} THEN seen
    ELSE LET found == (UNION {OneJump(b, origin, c) : c \in frontier})
                        \ (seen \cup frontier)
         IN  JumpClosure(b, origin, found, seen \cup frontier)

\* The empty neighbours of the origin.
StepCells(b, origin) ==
    { At(origin, directions[i], 1) : i \in 1..6 }
        \cap {k \in DOMAIN b : b[k] = NONE}

\* The destinations of the rules: a step, or a chain of one or more jumps.
RuleMoves(b, origin) ==
    StepCells(b, origin) \cup (JumpClosure(b, origin, {origin}, {}) \ {origin})

KeysOf(moves) == {toKey(moves[i]) : i \in 1..Len(moves)}

\* The corner whose cells are the point reflections of p's home cells.
FacingCorners(p) ==
    { c \in SeqRange(allCorners) :
        p \in SeqRange(allCorners)
        /\ CornerKeys(c) = { <<0 - k[1], 0 - k[2]>> : k \in CornerKeys(p) } }

\* p has exactly ten pieces and every one stands in the corner facing p's.
AllTenHome(b, p) ==
    LET mine == {k \in DOMAIN b : b[k] = p}
    IN  /\ Cardinality(mine) = 10
        /\ \E c \in FacingCorners(p) : mine \subseteq CornerKeys(c)

\* The player after p in the order of play, wrapping at the end.
FollowerOf(active, p) ==
    LET i == CHOOSE j \in 1..Len(active) : active[j] = p
    IN  active[(i % Len(active)) + 1]

\* The last call was op and returned r.
Returned(o, r) == op = o /\ ret = r

-----------------------------------------------------------------------------
(* Properties                                                                *)

\* C1: a movePiece(dest) made while a piece is selected and dest is one of
\* validMoves returns true; dest then holds what the origin held, the origin
\* is empty, every other cell holds what it held, and the selection and
\* validMoves are cleared.
C1_MoveFrame ==
    [][\A to \in InputPositions :
        (selectedPosition # << >> /\ IsValidMove(validMoves, to) /\ MovePiece(to))
        => LET from == toKey(selectedPosition[1])
           IN  /\ ret' = TRUE
               /\ board'[toKey(to)] = board[from]
               /\ board'[from] = NONE
               /\ \A k \in DOMAIN board \ {from, toKey(to)} : board'[k] = board[k]
               /\ DOMAIN board' = DOMAIN board
               /\ selectedPosition' = << >>
               /\ validMoves' = << >>]_vars

\* C1 witness: the north piece of (4,-8) has jumped the piece of (4,-6), which
\* still stands, and landed on (4,-4).
C1_Witness ==
    /\ Returned("movePiece", TRUE)
    /\ board[<<4, -8>>] = NONE
    /\ board[<<4, -6>>] = SOUTH
    /\ board[<<4, -4>>] = NORTH
    /\ selectedPosition = << >>

\* C2 (as stated): after every successful movePiece that does not produce a
\* win, the current player is the player that follows the mover in
\* activePlayers, wrapping; in every reachable state, those reached through
\* importState included.
C2_TurnPassesToFollower ==
    [][\A to \in InputPositions :
        (MovePiece(to) /\ ret' = TRUE /\ ~checkWin(board', currentPlayer)
            /\ currentPlayer \in SeqRange(activePlayers))
        => currentPlayer' = FollowerOf(activePlayers, currentPlayer)]_vars

\* C3 (as stated): once winner is set, no later selectPiece or movePiece
\* changes an occupant, the current player or the winner.
C3_WinIsTerminal ==
    [][\A pos \in InputPositions :
        (winner # << >> /\ (SelectPiece(pos) \/ MovePiece(pos)))
        => (board' = board /\ currentPlayer' = currentPlayer /\ winner' = winner)]_vars

\* C4: after a successful move by p, winner is p if p has exactly ten pieces
\* on the board and all of them stand in the corner opposite p's home corner;
\* otherwise the move leaves winner as it was.
C4_WinCondition ==
    [][\A to \in InputPositions :
        (MovePiece(to) /\ ret' = TRUE)
        => LET p == board[toKey(selectedPosition[1])]
           IN  IF AllTenHome(board', p)
               THEN winner' = <<p>>
               ELSE winner' = winner]_vars

\* C4 witness: a move has just made south the winner.
C4_Witness ==
    /\ Returned("movePiece", TRUE)
    /\ winner = <<SOUTH>>
    /\ AllTenHome(board, SOUTH)

\* C5: for the selected piece, the move generator returns exactly the empty
\* neighbours together with the cells a chain of one or more jumps reaches;
\* it returns no occupied cell, no coordinate off the board and not the
\* origin.
C5_GeneratorExact ==
    selectedPosition # << >> =>
        LET origin == selectedPosition[1]
            moves == KeysOf(calculateValidMoves(board, origin))
        IN  /\ moves = RuleMoves(board, toKey(origin))
            /\ \A k \in moves :
                  k \in DOMAIN board /\ board[k] = NONE /\ k # toKey(origin)

\* C5 witness: from (4,-8) the generator returns the landing of a long jump,
\* (4,-4), and the landings of the chain that goes on from there.
C5_Witness ==
    /\ selectedPosition = <<Pos(4, -8)>>
    /\ board[<<4, -6>>] # NONE
    /\ {<<4, -4>>, <<2, -4>>, <<2, -2>>, <<-4, -2>>}
          \subseteq KeysOf(calculateValidMoves(board, Pos(4, -8)))

\* C6: the chain-jump search for the selected piece comes to an end, and it
\* recurses from each coordinate at most once.
C6_SearchExpandsOnce ==
    selectedPosition # << >> =>
        LET trail == JumpSearch(board, selectedPosition[1]).trail
        IN  /\ Len(trail) < ExpansionBudget
            /\ \A i, j \in 1..Len(trail) : trail[i] = trail[j] => i = j

\* C6 witness: a search that reaches (2,-2) along two chains, through (0,-2)
\* and through (2,-4).
C6_Witness ==
    /\ selectedPosition = <<Pos(4, -8)>>
    /\ <<2, -2>> \in OneJump(board, <<4, -8>>, <<0, -2>>)
    /\ <<2, -2>> \in OneJump(board, <<4, -8>>, <<2, -4>>)
    /\ Len(JumpSearch(board, Pos(4, -8)).trail) = 7

\* C7 (as stated): selectPiece(coord) returns true exactly when coord is a
\* cell of the board that holds a piece of the current player, and never for
\* an empty cell; on success the selection is coord and validMoves is the
\* generator's result for it.
C7_SelectOnlyOwnPiece ==
    [][\A pos \in InputPositions :
        SelectPiece(pos)
        => /\ ret' = TRUE <=> /\ toKey(pos) \in DOMAIN board
                              /\ board[toKey(pos)] # NONE
                              /\ board[toKey(pos)] = currentPlayer
           /\ ret' = TRUE => /\ selectedPosition' = <<pos>>
                             /\ validMoves' = calculateValidMoves(board, pos)]_vars

\* C8: a selectPiece or movePiece call that returns false leaves the board,
\* the current player, the selection, validMoves and the winner as they were.
C8_RejectedCallChangesNothing ==
    [][(op' \in {"selectPiece", "movePiece"} /\ ret' = FALSE)
        => /\ board' = board
           /\ currentPlayer' = currentPlayer
           /\ selectedPosition' = selectedPosition
           /\ validMoves' = validMoves
           /\ winner' = winner]_vars

\* C8 witness: a movePiece has returned false while a piece was selected.
C8_Witness ==
    /\ Returned("movePiece", FALSE)
    /\ selectedPosition # << >>
    /\ validMoves # << >>

\* C9: an importState call that returns false changes nothing: not the
\* board, the current player, the selection, validMoves or the winner.
C9_RejectedImportChangesNothing ==
    [][\A state \in ImportInputs :
        (ImportState(state) /\ ret' = FALSE)
        => /\ board' = board
           /\ currentPlayer' = currentPlayer
           /\ selectedPosition' = selectedPosition
           /\ validMoves' = validMoves
           /\ winner' = winner]_vars

\* C9 witness: an import has been rejected in a game where a piece is
\* selected.
C9_Witness ==
    /\ Returned("importState", FALSE)
    /\ selectedPosition # << >>
    /\ validMoves # << >>

\* Some tuple of the board array has a q, r or s that is not an integer, or
\* names no cell of the board.
HasStrayTuple(b, state) ==
    /\ state.parses /\ state.isObject /\ state.hasBoard /\ state.boardIsArray
    /\ \E i \in 1..Len(state.board) :
          LET piece == state.board[i]
              whole(v) == v.t = "number" /\ v.den = 1
          IN  \/ ~(whole(piece.q) /\ whole(piece.r) /\ whole(piece.s))
              \/ <<piece.q.num, piece.r.num>> \notin DOMAIN b
              \/ piece.s.num # (0 - piece.q.num) - piece.r.num

\* C10 (as stated): importState returns false whenever a tuple has a
\* non-integer q, r or s, or its (q, r, s) is not the coordinate of a cell of
\* the live board.
C10_StrayTupleRejected ==
    [][\A state \in ImportInputs :
        (ImportState(state) /\ HasStrayTuple(board, state)) => ret' = FALSE]_vars

\* v is one of the seven player identifiers: the numbers of the enum.
IsIdentifier(v) == v.t = "number" /\ v.den = 1 /\ v.num \in PlayerNumbers

\* The record's currentPlayer, or the player of one of its tuples, is not a
\* player identifier.
HasForeignPlayer(state) ==
    /\ state.parses /\ state.isObject
    /\ \/ state.hasCurrentPlayer /\ ~IsIdentifier(state.currentPlayer)
       \/ /\ state.hasBoard /\ state.boardIsArray
          /\ \E i \in 1..Len(state.board) : ~IsIdentifier(state.board[i].player)

\* C11 (as stated): importState returns false whenever currentPlayer or a
\* tuple's player is not one of the seven player identifiers; hence after a
\* successful import the current player and every occupant is one of them.
C11_ForeignPlayerRejected ==
    [][\A state \in ImportInputs :
        ImportState(state)
        => /\ HasForeignPlayer(state) => ret' = FALSE
           /\ ret' = TRUE => /\ currentPlayer' \in PlayerNumbers
                             /\ \A k \in DOMAIN board' : board'[k] \in PlayerNumbers]_vars

\* No later tuple of the array lists the cell of the i-th one.
ListedLast(pieces, i) ==
    \A j \in (i + 1)..Len(pieces) : PieceKey(pieces[j]) # PieceKey(pieces[i])

\* What a successful import of the record leaves: the listed cells hold the
\* occupants the record gives (with lastOnly: the occupant of the last tuple
\* that lists the cell), the current player is the record's, and selection,
\* validMoves and winner are cleared.
ImportFrame(state, lastOnly) ==
    /\ \A i \in 1..Len(state.board) :
          (lastOnly => ListedLast(state.board, i))
          => board'[PieceKey(state.board[i])] = state.board[i].player.num
    /\ currentPlayer' = state.currentPlayer.num
    /\ selectedPosition' = << >>
    /\ validMoves' = << >>
    /\ winner' = << >>

\* C12 (amended): after a successful importState every cell listed in the
\* record holds the occupant that the last tuple listing it gives, the
\* current player equals the record's currentPlayer, and selection,
\* validMoves and winner are cleared.
C12_ImportFrame ==
    [][/\ \A state \in ImportInputs :
            (ImportState(state) /\ ret' = TRUE) => ImportFrame(state, TRUE)
       /\ (op' = "importState(exportState())" /\ ret' = TRUE)
            => /\ currentPlayer' = currentPlayer
               /\ selectedPosition' = << >>
               /\ validMoves' = << >>
               /\ winner' = << >>]_vars

\* C12 witness: the record that lists (2,-3) twice has been imported, and the
\* cell holds the later occupant.
C12_Witness ==
    /\ Returned("importState", TRUE)
    /\ currentPlayer = NORTH
    /\ board[<<2, -3>>] = SOUTH
    /\ board[<<4, -8>>] = NORTH
    /\ board[<<1, -2>>] = NORTH

\* C12 (as stated): after a successful importState every cell listed in the
\* record holds the occupant the record gives for it, whichever tuple gives
\* it.
C12_EveryTupleHolds ==
    [][\A state \in ImportInputs :
        (ImportState(state) /\ ret' = TRUE) => ImportFrame(state, FALSE)]_vars

\* C13: in every reachable state importState(exportState()) returns true and
\* leaves every cell's occupant and the current player as they were.
C13_RoundTrip ==
    [][ExportImport
        => (ret' = TRUE /\ board' = board /\ currentPlayer' = currentPlayer)]_vars

\* C13 witness: the round trip has been made after a move, on a board with
\* pieces of both players, in and out of the corners.
C13_Witness ==
    /\ Returned("importState(exportState())", TRUE)
    /\ nMoves > 0
    /\ \E k \in CentralKeys : board[k] = NORTH
    /\ \E k \in CornerKeys(NORTH) : board[k] = SOUTH

\* C14 (as stated): whenever a selection exists, validMoves is the move
\* generator's result for the selected cell on the current board and the
\* selected cell holds a piece of the current player; selection and validMoves
\* are empty after every committed move, deselect, reset and successful import.
C14_SelectionConsistent ==
    /\ selectedPosition # << >> =>
          /\ validMoves = calculateValidMoves(board, selectedPosition[1])
          /\ board[toKey(selectedPosition[1])] # NONE
          /\ board[toKey(selectedPosition[1])] = currentPlayer
    /\ ( \/ Returned("movePiece", TRUE)
         \/ op \in {"deselectPiece", "reset"}
         \/ Returned("importState", TRUE)
         \/ Returned("importState(exportState())", TRUE) )
       => (selectedPosition = << >> /\ validMoves = << >>)

-----------------------------------------------------------------------------
(* The agents                                                                *)

\* The calls an agent answers.
AgentOps == {"GreedyAgent.getBestMove", "MCTSAgent.getBestMove"}

\* The legal moves of a player by the rules, as pairs of keys: from a cell
\* that holds one of the player's pieces to a destination of the rules.
LegalMoves(b, player) ==
    UNION { { <<k, t>> : t \in RuleMoves(b, k) } :
              k \in {c \in DOMAIN b : b[c] = player} }

\* Twice the distance of the cell at a key from a point: |dq| + |dr| + |ds|.
TwiceFrom(key, point) ==
    Abs(key[1] - point.q) + Abs(key[2] - point.r)
        + Abs(((0 - key[1]) - key[2]) - point.s)

\* The goal centre the agents of a player measure from.
GoalOf(player) == getCornerCenter(getOppositeCorner(player))

\* Twice the forward progress of a move of a player.
TwiceProgress(move, player) ==
    TwiceFrom(move[1], GoalOf(player)) - TwiceFrom(move[2], GoalOf(player))

\* The legal moves of a player no legal move has more progress than.
BestLegalMoves(b, player) ==
    { m \in LegalMoves(b, player) :
        \A n \in LegalMoves(b, player) :
            TwiceProgress(n, player) <= TwiceProgress(m, player) }

\* The move returned, as a pair of keys.
Answered == <<toKey(aiMove[1].from), toKey(aiMove[1].to)>>

\* The steps MCTSAgent.getBestMove is followed by where its search is
\* explored iteration after iteration.
MctsOps ==
    {"MCTSAgent.root", "MCTSAgent.expand", "MCTSAgent.simulate",
     "MCTSAgent.backpropagate", "MCTSAgent.return"}

\* C15: no call of GreedyAgent.getBestMove, MCTSAgent.getBestMove or
\* AIManager.getAIMove changes a cell of the board it is passed: the board
\* of the game is after the call, and after every step of the search (the
\* construction of the root, an expansion, a simulation, a backpropagation,
\* the return), what it was before.
C15_AgentsLeaveBoard ==
    [][(op' \in AgentOps \cup {"AIManager.getAIMove"} \cup MctsOps)
          => board' = board]_vars

\* C15 witness: getBestMove of the MCTS agent has returned a move after
\* three iterations, in which nodes two moves deep were made and the
\* simulations moved the pieces of both players, and the board passed does
\* not show the move: the piece is at its origin.
C15_Witness ==
    /\ op = "MCTSAgent.return"
    /\ mcts[1].iterationCount = 3
    /\ \E id \in 1..Len(mcts[1].nodes) : mcts[1].nodes[id].parent > 1
    /\ aiMove # << >>
    /\ board[Answered[1]] = currentPlayer
    /\ board[Answered[2]] = NONE
    /\ \E k \in DOMAIN board : board[k] = mcts[1].opponent

\* The greedy agent has answered with a move, found by trying moves out,
\* that the board passed does not show.
C15_WitnessGreedy ==
    /\ op = "GreedyAgent.getBestMove"
    /\ aiMove # << >>
    /\ board[Answered[1]] = currentPlayer
    /\ board[Answered[2]] = NONE

\* The manager has answered with a move that the board passed does not show.
C15_WitnessManager ==
    /\ op = "AIManager.getAIMove"
    /\ aiMove # << >>
    /\ board[Answered[1]] = currentPlayer
    /\ board[Answered[2]] = NONE
    /\ \E k \in DOMAIN board : board[k] \notin {NONE, currentPlayer}

\* C16: a move MCTSAgent.getBestMove returns starts on a cell that holds a
\* piece of the agent's player and ends on a cell of the board that is empty.
C16_MctsMoveOnBoard ==
    (op = "MCTSAgent.getBestMove" /\ aiMove # << >>) =>
        /\ has(board, Answered[1])
        /\ board[Answered[1]] = currentPlayer
        /\ has(board, Answered[2])
        /\ board[Answered[2]] = NONE

\* C16 witness: the MCTS agent has returned a jump, on a board that holds
\* pieces of another player as well.
C16_Witness ==
    /\ op = "MCTSAgent.getBestMove"
    /\ aiMove # << >>
    /\ distance(aiMove[1].from, aiMove[1].to) # JNumber(1)
    /\ \E k \in DOMAIN board : board[k] \notin {NONE, currentPlayer}

\* C17: an agent's getBestMove returns none exactly when its player has no
\* legal move; the MCTS agent returns a move when there is one whatever the
\* number of iterations its time limit allows, none included.
C17_NoneIffNoLegalMove ==
    op \in AgentOps => (aiMove = << >> <=> LegalMoves(board, currentPlayer) = {})

\* C17 witness: the MCTS agent has returned none, asked for a player that
\* has no piece to move while another player has.
C17_Witness ==
    /\ op = "MCTSAgent.getBestMove"
    /\ aiMove = << >>
    /\ LegalMoves(board, currentPlayer) = {}
    /\ \E k \in DOMAIN board : board[k] \notin {NONE, currentPlayer}

\* C18: the move the greedy agent returns has a forward-progress score,
\* distance(from, goalCenter) - distance(to, goalCenter), equal to the largest
\* score of the legal moves of its player; it is the score the move carries.
C18_GreedyScoreIsMax ==
    (op = "GreedyAgent.getBestMove" /\ aiMove # << >>) =>
        /\ Answered \in BestLegalMoves(board, currentPlayer)
        /\ aiMove[1].score = Half(TwiceProgress(Answered, currentPlayer))

\* C18 witness: the greedy agent has returned a move where the legal moves
\* differ in their scores, and the first move generated is not a best one.
C18_Witness ==
    /\ op = "GreedyAgent.getBestMove"
    /\ aiMove # << >>
    /\ LET first == getAllPossibleMoves(board, currentPlayer)[1]
       IN  <<toKey(first.from), toKey(first.to)>>
              \notin BestLegalMoves(board, currentPlayer)

\* C19 (as stated): among the moves of largest score the greedy agent returns
\* one whose destination is nearest to the goal centre.
C19_GreedyTieBreak ==
    (op = "GreedyAgent.getBestMove" /\ aiMove # << >>) =>
        \A m \in BestLegalMoves(board, currentPlayer) :
            TwiceFrom(Answered[2], GoalOf(currentPlayer))
                <= TwiceFrom(m[2], GoalOf(currentPlayer))

\* C20 (as stated): the goal centre used for a player is a cell of the board
\* in the corner opposite to the player's, and its q, r and s sum to 0.
C20_GoalCentreInOppositeCorner ==
    \A i \in 1..Len(activePlayers) :
        LET goalCenter == GoalOf(activePlayers[i])
        IN  /\ toKey(goalCenter) \in CornerKeys(getOppositeCorner(activePlayers[i]))
            /\ goalCenter.q + goalCenter.r + goalCenter.s = 0

-----------------------------------------------------------------------------
(* Distances.                                                                *)

\* The largest of three numbers.
Max3(a, b, c) ==
    IF a >= b /\ a >= c THEN a ELSE IF b >= c THEN b ELSE c

\* The largest coordinate difference between the cell at a key and a point:
\* max(|dq|, |dr|, |ds|).
MaxNormFrom(key, point) ==
    Max3(Abs(key[1] - point.q), Abs(key[2] - point.r),
         Abs(((0 - key[1]) - key[2]) - point.s))

\* C21 (as stated): for every pair the greedy agent passes to
\* HexUtils.distance, an end of a legal move of its player and the player's
\* goal centre, the largest coordinate difference equals half the sum of the
\* three differences, and that half is a whole number that is not negative.
C21_DistanceIsMaxNorm ==
    op = "GreedyAgent.getBestMove" =>
        \A m \in LegalMoves(board, currentPlayer) : \A i \in 1..2 :
            LET goalCenter == GoalOf(currentPlayer)
            IN  /\ 2 * MaxNormFrom(m[i], goalCenter) = TwiceFrom(m[i], goalCenter)
                /\ TwiceFrom(m[i], goalCenter) % 2 = 0
                /\ TwiceFrom(m[i], goalCenter) >= 0

-----------------------------------------------------------------------------
(* The web game logic (app/utils/chineseCheckers): a second, two-player      *)
(* implementation of the board and the moves. Its keys are "q,r,s", here     *)
(* <<q, r, s>>; a cell is its key.                                           *)

STAR_LIMIT == 8

HEX_RADIUS == 4

\* A variant of DIRECTIONS whose fifth entry has no opposite (sensitivity
\* of C28).
DIRECTIONS_Lopsided ==
    << <<1, -1, 0>>, <<1, 0, -1>>, <<0, 1, -1>>,
       <<-1, 1, 0>>, <<-1, -1, 2>>, <<0, -1, 1>> >>

DIRECTIONS ==
    << <<1, -1, 0>>, <<1, 0, -1>>, <<0, 1, -1>>,
       <<-1, 1, 0>>, <<-1, 0, 1>>, <<0, -1, 1>> >>

keyOf(q, r, s) == <<q, r, s>>

\* Math.max of a non-empty set of numbers.
MathMax(S) == CHOOSE x \in S : \A y \in S : y <= x

\* hexDistance: max(|dq|, |dr|, |ds|) of the two cells parsed from the keys.
hexDistance(from, to) ==
    MathMax({Abs(from[1] - to[1]), Abs(from[2] - to[2]), Abs(from[3] - to[3])})

isMainHex(q, r, s) == MathMax({Abs(q), Abs(r), Abs(s)}) <= HEX_RADIUS

\* A variant of isValidBoardCell that leaves the last arm of the star out
\* (sensitivity of C26).
isValidBoardCellFiveArms(q, r, s) ==
    \/ isMainHex(q, r, s)
    \/ (q >= 5 /\ q <= STAR_LIMIT /\ r <= 0 /\ r >= -HEX_RADIUS /\ s <= 0 /\ s >= -HEX_RADIUS)
    \/ (q <= -5 /\ q >= -STAR_LIMIT /\ r >= 0 /\ r <= HEX_RADIUS /\ s >= 0 /\ s <= HEX_RADIUS)
    \/ (r >= 5 /\ r <= STAR_LIMIT /\ q <= 0 /\ q >= -HEX_RADIUS /\ s <= 0 /\ s >= -HEX_RADIUS)
    \/ (r <= -5 /\ r >= -STAR_LIMIT /\ q >= 0 /\ q <= HEX_RADIUS /\ s >= 0 /\ s <= HEX_RADIUS)
    \/ (s >= 5 /\ s <= STAR_LIMIT /\ q <= 0 /\ q >= -HEX_RADIUS /\ r <= 0 /\ r >= -HEX_RADIUS)

\* isValidBoardCell: the main hexagon or one of the six arms, in the order
\* isQPositiveArm, isQNegativeArm, isRPositiveArm, isRNegativeArm,
\* isSPositiveArm, isSNegativeArm.
isValidBoardCell(q, r, s) ==
    \/ isMainHex(q, r, s)
    \/ (q >= 5 /\ q <= STAR_LIMIT /\ r <= 0 /\ r >= -HEX_RADIUS /\ s <= 0 /\ s >= -HEX_RADIUS)
    \/ (q <= -5 /\ q >= -STAR_LIMIT /\ r >= 0 /\ r <= HEX_RADIUS /\ s >= 0 /\ s <= HEX_RADIUS)
    \/ (r >= 5 /\ r <= STAR_LIMIT /\ q <= 0 /\ q >= -HEX_RADIUS /\ s <= 0 /\ s >= -HEX_RADIUS)
    \/ (r <= -5 /\ r >= -STAR_LIMIT /\ q >= 0 /\ q <= HEX_RADIUS /\ s >= 0 /\ s <= HEX_RADIUS)
    \/ (s >= 5 /\ s <= STAR_LIMIT /\ q <= 0 /\ q >= -HEX_RADIUS /\ r <= 0 /\ r >= -HEX_RADIUS)
    \/ (s <= -5 /\ s >= -STAR_LIMIT /\ q >= 0 /\ q <= HEX_RADIUS /\ r >= 0 /\ r <= HEX_RADIUS)

\* The triples the two nested loops of createBoardCells run through: q in
\* the outer loop, r in the inner one, s = -q - r.
StarGrid ==
    [i \in 1..((2 * STAR_LIMIT + 1) * (2 * STAR_LIMIT + 1)) |->
        LET q == ((i - 1) \div (2 * STAR_LIMIT + 1)) - STAR_LIMIT
            r == ((i - 1) % (2 * STAR_LIMIT + 1)) - STAR_LIMIT
        IN  keyOf(q, r, (0 - q) - r)]

\* The two tests inside the loops: neither `continue` is taken.
InStar(key) ==
    /\ ~(Abs(key[3]) > STAR_LIMIT)
    /\ isValidBoardCell(key[1], key[2], key[3])

\* createBoardCells: the cells in the order they are pushed.
createBoardCells == SelectSeq(StarGrid, InStar)

\* createNeighbors: for every cell the keys one step away in the order of
\* DIRECTIONS, those that are keys of cells kept.
createNeighbors(cells) ==
    [key \in SeqRange(cells) |->
        LET IsCell(candidate) == candidate \in SeqRange(cells)
        IN  SelectSeq([i \in 1..Len(DIRECTIONS) |->
                          keyOf(key[1] + DIRECTIONS[i][1],
                                key[2] + DIRECTIONS[i][2],
                                key[3] + DIRECTIONS[i][3])],
                      IsCell)]

\* createZones: the start zones, in the order the cells are added to them,
\* and the goal zones, the start zones swapped.
createZones(cells) ==
    LET InStart1(key) == key[1] <= -5
        InStart2(key) == key[1] >= 5
        start1 == SelectSeq(cells, InStart1)
        start2 == SelectSeq(cells, InStart2)
    IN  [start |-> <<start1, start2>>, goal |-> <<start2, start1>>]

\* createPieces: a piece on every cell of the two start zones; the id
\* "p<player>-<index>" is the pair <<player, index>>.
createPieces(startZones) ==
    LET PiecesFor(player) ==
            [i \in 1..Len(startZones[player]) |->
                [id |-> <<player, i>>, player |-> player,
                 position |-> startZones[player][i]]]
    IN  PiecesFor(1) \o PiecesFor(2)

\* The parts of a GameState no function replaces: the cells, the key set of
\* cellMap, the neighbours and the goal zones of createInitialState.
cells == createBoardCells

cellMap == SeqRange(cells)

neighbors == createNeighbors(cells)

goalZones == createZones(cells).goal

\* createInitialState: the parts of the state that change.
createInitialState ==
    [pieces |-> createPieces(createZones(cells).start),
     currentPlayer |-> 1,
     selectedPieceId |-> << >>,
     validMoves |-> << >>,
     winner |-> << >>]

\* findPieceById: <<>> is undefined.
findPieceById(state, pieceId) ==
    LET IsIt(piece) == piece.id = pieceId
        found == SelectSeq(state.pieces, IsIt)
    IN  IF found = << >> THEN << >> ELSE <<found[1]>>

\* pieceMap(state).has(key)
occupiedHas(state, key) ==
    \E i \in 1..Len(state.pieces) : state.pieces[i].position = key

\* moves.add for each of a list of keys: a Set keeps the first insertion.
RECURSIVE AddAll(_, _)
AddAll(moves, keys) ==
    IF keys = << >> THEN moves
    ELSE AddAll(IF Head(keys) \in SeqRange(moves) THEN moves
                ELSE Append(moves, Head(keys)),
                Tail(keys))

\* getJumpTargets: in the order of DIRECTIONS, the cell two steps away when
\* the cell one step away holds a piece and the landing is an empty cell.
getJumpTargets(state, fromKey) ==
    IF fromKey \notin cellMap THEN << >>
    ELSE
    LET Over(i) == keyOf(fromKey[1] + DIRECTIONS[i][1],
                         fromKey[2] + DIRECTIONS[i][2],
                         fromKey[3] + DIRECTIONS[i][3])
        Landing(i) == keyOf(fromKey[1] + DIRECTIONS[i][1] * 2,
                            fromKey[2] + DIRECTIONS[i][2] * 2,
                            fromKey[3] + DIRECTIONS[i][3] * 2)
        Lands(i) == ~(\/ ~occupiedHas(state, Over(i))
                      \/ Landing(i) \notin cellMap
                      \/ occupiedHas(state, Landing(i)))
        dirs == SelectSeq([i \in 1..Len(DIRECTIONS) |-> i], Lands)
    IN  [j \in 1..Len(dirs) |-> Landing(dirs[j])]

\* The while loop of getValidMoves: the queue, the visited set and the moves.
RECURSIVE JumpQueue(_, _, _, _)
JumpQueue(state, queue, visited, moves) ==
    IF queue = << >> THEN moves
    ELSE LET Unvisited(landing) == landing \notin visited
             fresh == SelectSeq(getJumpTargets(state, Head(queue)), Unvisited)
         IN  JumpQueue(state, Tail(queue) \o fresh,
                       visited \cup SeqRange(fresh), AddAll(moves, fresh))

\* getValidMoves: the empty neighbours, then the landings of chains of jumps.
getValidMoves(state, pieceId) ==
    LET found == findPieceById(state, pieceId)
    IN  IF found = << >> THEN << >>
        ELSE LET piece == found[1]
                 Free(adjacent) == ~occupiedHas(state, adjacent)
                 adjacentMoves ==
                     IF piece.position \in DOMAIN neighbors
                     THEN SelectSeq(neighbors[piece.position], Free)
                     ELSE << >>
             IN  JumpQueue(state, <<piece.position>>, {piece.position},
                           AddAll(<< >>, adjacentMoves))

\* applyMove: the state returned.
applyMove_web(state, pieceId, destination) ==
    IF destination \notin SeqRange(getValidMoves(state, pieceId))
         \/ state.winner # << >>
    THEN state
    ELSE LET nextPieces ==
                 [i \in 1..Len(state.pieces) |->
                     IF state.pieces[i].id = pieceId
                     THEN [state.pieces[i] EXCEPT !.position = destination]
                     ELSE state.pieces[i]]
             player == state.currentPlayer
             hasWon ==
                 \A i \in 1..Len(nextPieces) :
                     nextPieces[i].player = player =>
                         nextPieces[i].position \in SeqRange(goalZones[player])
         IN  [state EXCEPT
                 !.pieces = nextPieces,
                 !.selectedPieceId = << >>,
                 !.validMoves = << >>,
                 !.winner = IF hasWon THEN <<player>> ELSE << >>,
                 !.currentPlayer =
                     IF hasWon THEN player ELSE IF player = 1 THEN 2 ELSE 1]

\* The states the functions are given: the initial one and the states the
\* tests build from it, two pieces on the middle line.
TestState(first, second) ==
    [createInitialState EXCEPT
        !.pieces = << [id |-> <<1, 0>>, player |-> 1, position |-> first],
                      [id |-> <<2, 0>>, player |-> 2, position |-> second] >>,
        !.currentPlayer = 1]

WebStates ==
    { createInitialState,
      TestState(keyOf(0, 0, 0), keyOf(1, -1, 0)),
      TestState(keyOf(0, 0, 0), keyOf(2, -2, 0)) }

WebInit ==
    /\ webState \in WebStates
    /\ op = "createInitialState"
    /\ ret = TRUE
    /\ nMoves = 0
    /\ CoreIdle
    /\ SetupIdle
    /\ MctsIdle
    /\ TurnIdle

\* The piece ids the functions are called with: the two pieces of the test
\* states and, of the initial state, three pieces of the front rows of each
\* player. An id no piece of the state has is an input as well.
WebPieceIds ==
    { <<1, 0>>, <<2, 0>>, <<1, 5>>, <<1, 8>>, <<1, 9>>, <<2, 2>>, <<2, 3>>, <<2, 6>> }

\* A call of getValidMoves.
WebGetValidMoves ==
    \E pieceId \in WebPieceIds :
        /\ op' = "getValidMoves"
        /\ ret' = [pieceId |-> pieceId, moves |-> getValidMoves(webState, pieceId)]
        /\ UNCHANGED <<webState, nMoves, coreVars, launchSettings, gameConfig, aiManager,
                       mcts, turnManager, tasks, frame, boardSystem,
                   observers>>

\* A call of applyMove, with a destination that is a move of the piece or
\* the middle cell of the board; the state returned replaces the state.
WebApplyMove ==
    /\ nMoves < MaxMoves
    /\ \E pieceId \in WebPieceIds :
         \E destination \in SeqRange(getValidMoves(webState, pieceId))
                              \cup {keyOf(0, 0, 0)} :
             /\ op' = "applyMove"
             /\ webState' = applyMove_web(webState, pieceId, destination)
             /\ ret' = (webState' # webState)
             /\ nMoves' = IF ret' THEN nMoves + 1 ELSE nMoves
             /\ UNCHANGED <<coreVars, launchSettings, gameConfig, aiManager, mcts,
                            turnManager, tasks, frame, boardSystem,
                   observers>>

WebNext == WebGetValidMoves \/ WebApplyMove

WebSpec == WebInit /\ [][WebNext]_vars

-----------------------------------------------------------------------------
(* The boards.                                                               *)

\* The cell j steps from a key of the web board in the d-th direction.
WebStep(key, d, j) ==
    keyOf(key[1] + j * DIRECTIONS[d][1], key[2] + j * DIRECTIONS[d][2],
          key[3] + j * DIRECTIONS[d][3])

\* C26: the board constructed has exactly 121 cells with pairwise distinct
\* keys, each with q + r + s = 0: createBoard adds 121 cells and no key
\* twice, and createBoardCells pushes 121 cells and no key twice.
C26_BoardHas121Cells ==
    /\ Cardinality(DOMAIN board) = 121
    /\ Len(BoardOrder) = 121
    /\ SeqRange(BoardOrder) = DOMAIN board
    /\ \A key \in DOMAIN board :
           Pos(key[1], key[2]).q + Pos(key[1], key[2]).r + Pos(key[1], key[2]).s = 0
    /\ Len(cells) = 121
    /\ Cardinality(cellMap) = 121
    /\ \A key \in cellMap : key[1] + key[2] + key[3] = 0

\* C26 witness: a board constructed for three players, whose corners hold
\* pieces and are cells among the 121.
C26_Witness ==
    /\ op = "constructor"
    /\ Len(activePlayers) = 3
    /\ Cardinality({key \in DOMAIN board : board[key] # NONE}) = 30

\* C27: after construction a corner cell holds the player of its corner when
\* that player is active and is empty when not, every other cell is empty,
\* and each active player has exactly 10 pieces, all in its own corner.
C27_StartPosition ==
    op \in {"constructor", "reset"} =>
        /\ \A key \in DOMAIN board :
               IF \E c \in SeqRange(activePlayers) : key \in CornerKeys(c)
               THEN board[key] \in SeqRange(activePlayers)
                        /\ key \in CornerKeys(board[key])
               ELSE board[key] = NONE
        /\ \A i \in 1..Len(activePlayers) :
               /\ Cardinality({key \in DOMAIN board : board[key] = activePlayers[i]}) = 10
               /\ {key \in DOMAIN board : board[key] = activePlayers[i]}
                      = CornerKeys(activePlayers[i])

\* C27 witness: a board set up again by reset, some corners of which belong
\* to no active player and are empty.
C27_Witness ==
    /\ op = "reset"
    /\ Len(activePlayers) = 2
    /\ \A key \in CornerKeys(NORTH_EAST) : board[key] = NONE
    /\ \A key \in CornerKeys(SOUTH) : board[key] = SOUTH

\* C28: on both boards, for all cells X and Y of the board, Y is among the
\* neighbours of X exactly when X is among the neighbours of Y.
C28_NeighboursSymmetric ==
    /\ \A x \in DOMAIN board :
           \A n \in SeqRange(getNeighbors(Pos(x[1], x[2]))) :
               toKey(n) \in DOMAIN board =>
                   \E m \in SeqRange(getNeighbors(n)) : toKey(m) = x
    /\ \A x \in cellMap :
           /\ \A y \in SeqRange(neighbors[x]) : x \in SeqRange(neighbors[y])
           /\ \A d \in 1..Len(DIRECTIONS) :
                  WebStep(x, d, 1) \in cellMap =>
                      WebStep(x, d, 1) \in SeqRange(neighbors[x])

\* C28 witness: getValidMoves has returned the neighbours of a piece in the
\* middle of the board, all six of them cells.
C28_Witness ==
    /\ op = "getValidMoves"
    /\ Len(ret.moves) = 6
    /\ \A i \in 1..6 : hexDistance(ret.moves[i], keyOf(0, 0, 0)) = 1

\* C29 (as stated): in the web game logic, when a single piece lies k steps
\* from a piece in a straight line, for k = 1 or k = 2, the cells between
\* are empty, and the cells beyond up to the one k steps beyond are cells of
\* the board and empty, the landing k steps beyond is among the moves
\* getValidMoves returns for the piece.
C29_GapJumpIsAMove ==
    op = "getValidMoves" =>
        LET found == findPieceById(webState, ret.pieceId)
        IN  found # << >> =>
                \A d \in 1..Len(DIRECTIONS) : \A k \in 1..2 :
                    ( /\ occupiedHas(webState, WebStep(found[1].position, d, k))
                      /\ \A j \in 1..(2 * k) :
                             j # k =>
                                 /\ WebStep(found[1].position, d, j) \in cellMap
                                 /\ ~occupiedHas(webState,
                                                 WebStep(found[1].position, d, j)) )
                    => WebStep(found[1].position, d, 2 * k) \in SeqRange(ret.moves)

-----------------------------------------------------------------------------
(* The setup of a game (config/setup, config/GameSession) and the manager of *)
(* the agents (managers/AIManager). An optional value is <<>> when it is     *)
(* undefined and <<v>> when it is v.                                         *)

\* A PlayerConfig of a human player and of an AI player.
Human(player) ==
    [player |-> player, isAI |-> FALSE, aiType |-> << >>, aiDifficulty |-> << >>]

AI(player, aiType, aiDifficulty) ==
    [player |-> player, isAI |-> TRUE, aiType |-> aiType, aiDifficulty |-> aiDifficulty]

\* A GameConfig; playerConfigs is <<>> when the config has none.
GameConfig(activePlayers_, playerConfigs) ==
    [playerCount |-> Len(activePlayers_), activePlayers |-> activePlayers_,
     playerConfigs |-> playerConfigs]

DEFAULT_2_PLAYER_CONFIG == GameConfig(<<SOUTH, NORTH>>, << >>)

PLAYER_VS_AI_CONFIG ==
    GameConfig(<<SOUTH, NORTH>>, <<Human(SOUTH), AI(NORTH, <<"greedy">>, <<"medium">>)>>)

\* PRESET_CONFIGS: a function of the player counts that have a preset.
PRESET_CONFIGS ==
    [n \in {2, 3, 4, 6} |->
        CASE n = 2 -> DEFAULT_2_PLAYER_CONFIG
          [] n = 3 -> GameConfig(<<NORTH, SOUTH_EAST, SOUTH_WEST>>, << >>)
          [] n = 4 -> GameConfig(<<NORTH, SOUTH_EAST, SOUTH, NORTH_WEST>>, << >>)
          [] n = 6 -> GameConfig(<<NORTH, NORTH_EAST, SOUTH_EAST, SOUTH,
                                   SOUTH_WEST, NORTH_WEST>>, << >>)]

DEFAULT_DIFFICULTY == "medium"

DEFAULT_AI_TYPE == "greedy"

\* a ?? b for an optional a.
Coalesce(a, b) == IF a # << >> THEN a[1] ELSE b

\* array.slice(0, n)
SliceTo(seq, n) == SubSeq(seq, 1, IF n < Len(seq) THEN n ELSE Len(seq))

\* array[index] ?? fallback, with index counted from 0.
ItemOr(seq, index, fallback) ==
    IF index + 1 \in 1..Len(seq) THEN seq[index + 1] ELSE fallback

\* clampPlayerCount of an optional whole number.
clampPlayerCount(count) ==
    IF count = << >> \/ count[1] = 0 \/ count[1] < 2
    THEN DEFAULT_2_PLAYER_CONFIG.playerCount
    ELSE IF count[1] = 5 THEN 6
    ELSE LET atLeast == IF count[1] > 2 THEN count[1] ELSE 2
         IN  IF atLeast < 6 THEN atLeast ELSE 6

\* resolvePlayerTypes; rawTypes is <<>> when the argument is left out.
resolvePlayerTypes(mode, playerCount, rawTypes) ==
    IF mode = "ai" THEN <<"human", "ai">>
    ELSE [i \in 1..playerCount |-> ItemOr(Coalesce(rawTypes, << >>), i - 1, "human")]

\* A variant of buildMultiplayerConfig that makes a player config for every
\* entry of playerTypes instead of every active player (sensitivity of C30).
buildMultiplayerConfigPerType(playerTypes, count, difficulty, aiType) ==
    LET active == PRESET_CONFIGS[clampPlayerCount(count)].activePlayers
    IN  GameConfig(active,
            [i \in 1..Len(playerTypes) |->
                IF playerTypes[i] = "ai"
                THEN AI(ItemOr(active, i - 1, NONE), <<aiType>>, <<difficulty>>)
                ELSE Human(ItemOr(active, i - 1, NONE))])

\* buildMultiplayerConfig; count is optional.
buildMultiplayerConfig(playerTypes, count, difficulty, aiType) ==
    LET desiredCount ==
            clampPlayerCount(
                IF count # << >> /\ count[1] # 0 /\ count[1] > 0 THEN count
                ELSE IF Len(playerTypes) > 0 THEN <<Len(playerTypes)>> ELSE << >>)
        preset ==
            IF desiredCount \in DOMAIN PRESET_CONFIGS THEN PRESET_CONFIGS[desiredCount]
            ELSE IF Len(playerTypes) \in DOMAIN PRESET_CONFIGS
                 THEN PRESET_CONFIGS[Len(playerTypes)]
                 ELSE DEFAULT_2_PLAYER_CONFIG
        active == SliceTo(preset.activePlayers, desiredCount)
    IN  GameConfig(active,
            [i \in 1..Len(active) |->
                IF ItemOr(playerTypes, i - 1, "human") = "ai"
                THEN AI(active[i], <<aiType>>, <<difficulty>>)
                ELSE Human(active[i])])

\* buildAIConfig with both options given.
buildAIConfig(aiDifficulty, aiType) ==
    GameConfig(<<SOUTH, NORTH>>,
               <<Human(SOUTH), AI(NORTH, <<aiType>>, <<aiDifficulty>>)>>)

\* GameSetupOptions: every field is optional.
SetupOptions(mode, playerCount, playerTypes, aiDifficulty, aiType, gameConfig_, multiplayerConfig) ==
    [mode |-> mode, playerCount |-> playerCount, playerTypes |-> playerTypes,
     aiDifficulty |-> aiDifficulty, aiType |-> aiType, gameConfig |-> gameConfig_,
     multiplayerConfig |-> multiplayerConfig]

\* createLaunchSettings of options that are not null. In the settings the
\* difficulty and the type stay optional values: settings taken over from
\* a caller may lack them.
createLaunchSettings(raw) ==
    LET mode == Coalesce(raw.mode, "multiplayer")
        aiDifficulty == Coalesce(raw.aiDifficulty, DEFAULT_DIFFICULTY)
        aiType == Coalesce(raw.aiType, DEFAULT_AI_TYPE)
        playerCount ==
            IF mode = "ai" THEN 2
            ELSE clampPlayerCount(
                     IF raw.playerCount # << >> THEN raw.playerCount
                     ELSE IF raw.gameConfig # << >> THEN <<raw.gameConfig[1].playerCount>>
                     ELSE IF raw.multiplayerConfig # << >>
                          THEN <<Len(raw.multiplayerConfig[1])>>
                     ELSE IF raw.playerTypes # << >> THEN <<Len(raw.playerTypes[1])>>
                     ELSE <<DEFAULT_2_PLAYER_CONFIG.playerCount>>)
        playerTypes == resolvePlayerTypes(mode, playerCount, raw.playerTypes)
        config ==
            IF mode = "ai" THEN buildAIConfig(aiDifficulty, aiType)
            ELSE buildMultiplayerConfig(playerTypes, <<playerCount>>, aiDifficulty, aiType)
    IN  [mode |-> mode, playerCount |-> config.playerCount,
         playerTypes |-> playerTypes, aiDifficulty |-> <<aiDifficulty>>,
         aiType |-> <<aiType>>, gameConfig |-> config]

\* config.playerConfigs?.find((pc) => pc.player === player): optional.
FindPlayerConfig(config, player) ==
    LET IsIt(pc) == pc.player = player
        found == SelectSeq(config.playerConfigs, IsIt)
    IN  IF found = << >> THEN << >> ELSE <<found[1]>>

\* GameSession.cloneConfig
cloneConfig(config) ==
    GameConfig(config.activePlayers,
        [i \in 1..Len(config.activePlayers) |->
            LET existing == FindPlayerConfig(config, config.activePlayers[i])
            IN  IF existing # << >> /\ existing[1].isAI
                THEN AI(config.activePlayers[i],
                        <<Coalesce(existing[1].aiType, "greedy")>>,
                        <<Coalesce(existing[1].aiDifficulty, "medium")>>)
                ELSE Human(config.activePlayers[i])])

isLaunchSettings(value) ==
    /\ value.mode # << >>
    /\ value.playerCount # << >>
    /\ value.playerTypes # << >>
    /\ value.gameConfig # << >>

\* GameSession.create and the constructor: the launchSettings of the session.
GameSession_create(options) ==
    LET settings ==
            IF isLaunchSettings(options)
            THEN [mode |-> options.mode[1], playerCount |-> options.playerCount[1],
                  playerTypes |-> options.playerTypes[1],
                  aiDifficulty |-> options.aiDifficulty,
                  aiType |-> options.aiType, gameConfig |-> options.gameConfig[1]]
            ELSE createLaunchSettings(options)
    IN  [settings EXCEPT !.gameConfig = cloneConfig(settings.gameConfig)]

\* toLaunchSettings, as the options a later GameSession.create is given.
toLaunchSettings(settings) ==
    SetupOptions(<<settings.mode>>, <<settings.playerCount>>, <<settings.playerTypes>>,
                 settings.aiDifficulty, settings.aiType,
                 <<cloneConfig(settings.gameConfig)>>, << >>)

\* resolveTimeLimit of an optional difficulty.
resolveTimeLimit(difficulty) ==
    IF difficulty = <<"easy">> THEN 500
    ELSE IF difficulty = <<"hard">> THEN 2000
    ELSE 1000

\* The opponent initializeAgents and updateOpponents work out for the entry
\* of playerConfigs at an index counted from 0.
OpponentAt(config, index) ==
    config.activePlayers[((index + 1) % Len(config.activePlayers)) + 1]

\* The forEach of initializeAgents from the entry at an index on: agents is
\* the Map so far, a function of the players that have an agent. The
\* opponent of an agent is the one it was given last.
RECURSIVE InitializeFrom(_, _, _)
InitializeFrom(config, index, agents) ==
    IF index >= Len(config.playerConfigs) THEN agents
    ELSE LET playerConfig == config.playerConfigs[index + 1]
             agent == [type |-> Coalesce(playerConfig.aiType, "mcts"),
                       player |-> playerConfig.player,
                       opponent |-> OpponentAt(config, index),
                       timeLimit |-> resolveTimeLimit(playerConfig.aiDifficulty)]
         IN  InitializeFrom(config, index + 1,
                 IF ~playerConfig.isAI THEN agents
                 ELSE [p \in DOMAIN agents \cup {playerConfig.player} |->
                          IF p = playerConfig.player THEN agent ELSE agents[p]])

\* initializeAgents: the agents of a new AIManager.
initializeAgents(config) ==
    IF config.playerConfigs = << >> \/ Len(config.activePlayers) = 0
    THEN << >>
    ELSE InitializeFrom(config, 0, << >>)

\* The forEach of updateOpponents from the entry at an index on.
RECURSIVE UpdateFrom(_, _, _)
UpdateFrom(config, index, agents) ==
    IF index >= Len(config.playerConfigs) THEN agents
    ELSE LET playerConfig == config.playerConfigs[index + 1]
         IN  UpdateFrom(config, index + 1,
                 IF \/ ~playerConfig.isAI
                    \/ playerConfig.player \notin DOMAIN agents
                    \/ Len(config.activePlayers) = 0
                 THEN agents
                 ELSE [agents EXCEPT ![playerConfig.player].opponent =
                                         OpponentAt(config, index)])

updateOpponents(config, agents) == UpdateFrom(config, 0, agents)

isAIPlayer(agents, player) == player \in DOMAIN agents

\* The options a game is set up with: requested player counts from below the
\* range to above it, the modes, and lists of player types of several lengths.
SetupInputs ==
    { SetupOptions(mode, playerCount, playerTypes, aiDifficulty, << >>, gameConfig_,
                   multiplayerConfig) :
        mode \in {<< >>, <<"ai">>, <<"multiplayer">>},
        playerCount \in {<< >>} \cup {<<n>> : n \in -1..8},
        playerTypes \in {<< >>, << <<"ai">> >>, << <<"human", "ai", "ai">> >>,
                         << <<"ai", "human", "ai", "human", "ai">> >>},
        aiDifficulty \in {<< >>, <<"hard">>},
        gameConfig_ \in {<< >>, <<DEFAULT_2_PLAYER_CONFIG>>},
        multiplayerConfig \in {<< >>, << <<"human", "ai", "human", "ai">> >>} }

\* The configs an AIManager is constructed with directly: the preset against
\* an agent, the configs of the manager's tests, a config without player
\* configs, and two whose playerConfigs are not in the order of activePlayers.
DirectConfigs ==
    { PLAYER_VS_AI_CONFIG,
      GameConfig(<<SOUTH, NORTH>>, <<Human(SOUTH), AI(NORTH, <<"mcts">>, <<"medium">>)>>),
      GameConfig(<<SOUTH, NORTH>>, <<Human(SOUTH), Human(NORTH)>>),
      GameConfig(<<NORTH, SOUTH_EAST, SOUTH_WEST>>,
                 <<Human(NORTH), AI(SOUTH_EAST, <<"mcts">>, <<"easy">>),
                   AI(SOUTH_WEST, <<"mcts">>, <<"hard">>)>>),
      DEFAULT_2_PLAYER_CONFIG,
      GameConfig(<<SOUTH, NORTH>>, <<AI(NORTH, <<"mcts">>, << >>), Human(SOUTH)>>),
      GameConfig(<<NORTH, SOUTH_EAST, SOUTH_WEST>>,
                 <<AI(SOUTH_WEST, << >>, <<"easy">>), AI(NORTH, <<"greedy">>, << >>)>>) }

SetupInit ==
    /\ launchSettings = << >>
    /\ gameConfig = << >>
    /\ aiManager = << >>
    /\ op = "boot"
    /\ ret = TRUE
    /\ nMoves = 0
    /\ CoreIdle
    /\ WebIdle
    /\ MctsIdle
    /\ TurnIdle

\* The turn orders a scene can be set up with, and the board createBoard
\* makes for each of them.
SceneOrders ==
    {cloneConfig(GameSession_create(options).gameConfig).activePlayers :
        options \in SetupInputs}

SceneBoards == [active \in SceneOrders |-> createBoard(active)]

\* new Board(scene, center, hexSize, config): this.board =
\* HexUtils.createBoard(config).
BoardOfScene(active) ==
    IF active \in SceneOrders THEN SceneBoards[active] ELSE createBoard(active)

\* A call of buildMultiplayerConfig on its own, outside a scene, with a list
\* of player types and a count that need not agree.
BuildMultiplayerConfig ==
    /\ launchSettings = << >>
    /\ \E playerTypes \in {<< >>, <<"ai">>, <<"human", "ai", "ai">>,
                         <<"ai", "human", "ai", "human", "ai">>},
       count \in {<< >>} \cup {<<n>> : n \in -1..8} :
        /\ op' = "buildMultiplayerConfig"
        /\ ret' = buildMultiplayerConfig(playerTypes, count, DEFAULT_DIFFICULTY,
                                         DEFAULT_AI_TYPE)
        /\ UNCHANGED <<launchSettings, gameConfig, aiManager, nMoves, coreVars, webState,
                       mcts, turnManager, tasks, frame, boardSystem,
                   observers>>

\* new AIManager(config) with a config given directly, outside a scene.
NewAIManager ==
    /\ launchSettings = << >>
    /\ \E config \in DirectConfigs :
        /\ op' = "new AIManager"
        /\ ret' = TRUE
        /\ aiManager' = <<[config |-> config, agents |-> initializeAgents(config)]>>
        /\ UNCHANGED <<launchSettings, gameConfig, nMoves, coreVars, webState, mcts,
                   turnManager, tasks, frame, boardSystem,
                   observers>>

\* AIManager.updateOpponents
UpdateOpponents ==
    /\ aiManager # << >>
    /\ op' = "updateOpponents"
    /\ ret' = TRUE
    /\ aiManager' = <<[aiManager[1] EXCEPT
                          !.agents = updateOpponents(aiManager[1].config, @)]>>
    /\ UNCHANGED <<launchSettings, gameConfig, nMoves, coreVars, webState, mcts,
                   turnManager, tasks, frame, boardSystem,
                   observers>>

\* getAIDifficulty: the difficulty of the player's config when the config is
\* flagged isAI, "medium" when it has none; <<>> is null.
getAIDifficulty(config, player) ==
    LET playerConfig == FindPlayerConfig(config, player)
    IN  IF playerConfig # << >> /\ playerConfig[1].isAI
        THEN <<Coalesce(playerConfig[1].aiDifficulty, "medium")>>
        ELSE << >>

\* A variant of setAIDifficulty that leaves the agent as it is (sensitivity
\* of C31).
setAIDifficultyIgnored(agents, player, difficulty) == agents

\* setAIDifficulty on the agents of the manager: nothing without an agent of
\* the player; agent.setTimeLimit(resolveTimeLimit(difficulty)) with one.
\* GreedyAgent.setTimeLimit has an empty body, MCTSAgent.setTimeLimit assigns
\* the limit.
setAIDifficulty(agents, player, difficulty) ==
    IF player \notin DOMAIN agents THEN agents
    ELSE IF agents[player].type = "greedy" THEN agents
    ELSE [agents EXCEPT ![player].timeLimit = resolveTimeLimit(<<difficulty>>)]

Difficulties == {"easy", "medium", "hard"}

\* AIManager.setAIDifficulty, for any player and any difficulty.
SetAIDifficulty(player, difficulty) ==
    /\ aiManager # << >>
    /\ op' = "setAIDifficulty"
    /\ ret' = TRUE
    /\ aiManager' = <<[aiManager[1] EXCEPT
                          !.agents = setAIDifficulty(@, player, difficulty)]>>
    /\ UNCHANGED <<launchSettings, gameConfig, nMoves, coreVars, webState, mcts,
                   turnManager, tasks, frame, boardSystem,
                   observers>>

\* A GameConfig as the setup promises it: a player count that has a preset,
\* that many distinct corners, and one player config for each of them in the
\* same order.
WellFormed(config) ==
    /\ config.playerCount \in {2, 3, 4, 6}
    /\ Len(config.activePlayers) = config.playerCount
    /\ Cardinality(SeqRange(config.activePlayers)) = config.playerCount
    /\ SeqRange(config.activePlayers) \subseteq SeqRange(allCorners)
    /\ Len(config.playerConfigs) = config.playerCount
    /\ \A i \in 1..Len(config.playerConfigs) :
           config.playerConfigs[i].player = config.activePlayers[i]

\* C30: for every whole player count requested at setup, the resulting
\* GameConfig has a playerCount among 2, 3, 4 and 6, exactly that many
\* distinct corners in activePlayers and one entry of playerConfigs for each
\* active player in the same order: for the config of the launch settings,
\* the runtime config cloned from it and the config buildMultiplayerConfig
\* returns.
C30_SetupGivesPreset ==
    /\ launchSettings # << >> => WellFormed(launchSettings[1].gameConfig)
    /\ gameConfig # << >> => WellFormed(gameConfig[1])
    /\ op = "buildMultiplayerConfig" => WellFormed(ret)

\* C30 witness: five players were requested and the game is set up for six,
\* an agent among them.
C30_Witness ==
    /\ op = "GameSession.create"
    /\ ret = <<5>>
    /\ launchSettings[1].gameConfig.playerCount = 6
    /\ gameConfig[1].playerCount = 6
    /\ \E i \in 1..6 : gameConfig[1].playerConfigs[i].isAI

\* C31: setAIDifficulty(p, level) changes nothing but the time limit of p's
\* agent: the config of the manager, the agents of the other players and the
\* type, player and opponent of p's agent stay, and so does the value of
\* getAIDifficulty(p); the time limit of an MCTS agent of p becomes 500, 1000
\* or 2000 for easy, medium and hard.
C31_DifficultySetsTimeLimitOnly ==
    [][\A player \in SeqRange(allCorners) : \A difficulty \in Difficulties :
        SetAIDifficulty(player, difficulty)
        => LET before == aiManager[1]
               after == aiManager'[1]
           IN  /\ after.config = before.config
               /\ getAIDifficulty(after.config, player)
                      = getAIDifficulty(before.config, player)
               /\ DOMAIN after.agents = DOMAIN before.agents
               /\ \A p \in DOMAIN before.agents :
                      /\ p # player => after.agents[p] = before.agents[p]
                      /\ after.agents[p].type = before.agents[p].type
                      /\ after.agents[p].player = before.agents[p].player
                      /\ after.agents[p].opponent = before.agents[p].opponent
               /\ (player \in DOMAIN before.agents
                     /\ before.agents[player].type = "mcts")
                  => after.agents[player].timeLimit
                        = CASE difficulty = "easy" -> 500
                            [] difficulty = "medium" -> 1000
                            [] difficulty = "hard" -> 2000
               /\ launchSettings' = launchSettings
               /\ gameConfig' = gameConfig]_vars

\* C31 witness: the MCTS agent of a player configured hard has been given the
\* time limit of easy, and getAIDifficulty still answers hard.
C31_Witness ==
    /\ op = "setAIDifficulty"
    /\ SOUTH_WEST \in DOMAIN aiManager[1].agents
    /\ aiManager[1].agents[SOUTH_WEST].type = "mcts"
    /\ aiManager[1].agents[SOUTH_WEST].timeLimit = 500
    /\ getAIDifficulty(aiManager[1].config, SOUTH_WEST) = <<"hard">>

\* C24 (as stated): for every GameConfig and every player flagged isAI in
\* it, the opponent given to the player's agent, at construction and after
\* updateOpponents, is the entry following the player in activePlayers,
\* wrapping at the end, wherever the player stands in playerConfigs.
C24_OpponentIsFollower ==
    aiManager # << >> =>
        \A p \in DOMAIN aiManager[1].agents :
            p \in SeqRange(aiManager[1].config.activePlayers) =>
                aiManager[1].agents[p].opponent
                    = FollowerOf(aiManager[1].config.activePlayers, p)

-----------------------------------------------------------------------------
(* The search tree of MCTSAgent.getBestMove, iteration after iteration.      *)
(* The nodes are kept in a sequence in the order of their creation: the root *)
(* is node 1, parent is the index of the parent (0 for null) and children    *)
(* holds the indexes of the children.  The while loop runs as long as the    *)
(* clock allows, so that it may end at any of its tests; the positions of    *)
(* the search are "loop" (at the test), "expanded" (after the expansion),    *)
(* "simulated" (after the simulation) and "returned".                        *)

\* A bound of the exploration: the iterations the loop makes at most.
MaxIterations == 3

\* this.depthLimit
DepthLimit == 15

\* new MCTSNode(board, playerId, parent, move), with the parent it is given.
TreeNode(b, parent, move) == MCTSNode(b, move) @@ [parent |-> parent]

\* MCTSNode.bestChild.  The first child without a visit is returned at once.
\* Where every child has the same number of visits the exploration term of
\* the UCB1 score is the same for all, so that the first child with the most
\* wins has the best score.  Otherwise the order of the scores depends on
\* Math.sqrt and Math.log, which are not computed here: any child may be the
\* best one.  The result is the set of the children that may be returned.
bestChild(nodes, id) ==
    LET children == nodes[id].children
        n == Len(children)
        unvisited == {i \in 1..n : nodes[children[i]].visits = 0}
        wins(i) == nodes[children[i]].wins
        visits(i) == nodes[children[i]].visits
    IN  IF n = 0 THEN {}
        ELSE IF unvisited # {}
        THEN {children[CHOOSE i \in unvisited : \A j \in unvisited : i <= j]}
        ELSE IF \A i \in 1..n : visits(i) = visits(1)
        THEN {children[CHOOSE i \in 1..n :
                          /\ \A j \in 1..n : wins(j) <= wins(i)
                          /\ \A j \in 1..(i - 1) : wins(j) < wins(i)]}
        ELSE SeqRange(children)

RECURSIVE select(_, _)
\* MCTSAgent.select from a node on: the nodes the descent may end at.
select(nodes, id) ==
    IF Len(nodes[id].untriedMoves) = 0 /\ Len(nodes[id].children) > 0
    THEN UNION {select(nodes, child) : child \in bestChild(nodes, id)}
    ELSE {id}

\* MCTSAgent.expand on a node of the tree: the child is the last node.
TreeExpand(nodes, id, player, moveIndex) ==
    LET grown == expand(nodes[id], player, moveIndex)
        made == grown.children[Len(grown.children)]
        childNode == [TreeNode(made.board, id, made.move)
                         EXCEPT !.untriedMoves = made.untriedMoves]
        childId == Len(nodes) + 1
    IN  Append([nodes EXCEPT ![id] =
                   [grown EXCEPT !.children = Append(nodes[id].children, childId)]],
               childNode)

\* A number of quarters in lowest terms.
Quarters(n) ==
    IF n % 4 = 0 THEN JNumber(n \div 4)
    ELSE IF n % 2 = 0 THEN JFraction(n \div 2, 2)
    ELSE JFraction(n, 4)

RECURSIVE DistanceSum(_, _)
\* The sum of the distances of the cells at the keys from a point, in halves.
DistanceSum(keys, point) ==
    IF keys = {} THEN 0
    ELSE LET key == CHOOSE k \in keys : TRUE
             d == distance(Pos(key[1], key[2]), point)
         IN  d.num * (2 \div d.den) + DistanceSum(keys \ {key}, point)

\* MCTSAgent.evaluate: -aiDistance + opponentDistance * 0.5.
evaluate(b, player, opponent) ==
    LET goalCenter == getCornerCenter(getOppositeCorner(player))
        opponentGoalCenter == getCornerCenter(getOppositeCorner(opponent))
        aiCells == {k \in DOMAIN b : b[k] = player}
        opponentCells == {k \in DOMAIN b : b[k] # player /\ b[k] = opponent}
    IN  Quarters(DistanceSum(opponentCells, opponentGoalCenter)
                    - 2 * DistanceSum(aiCells, goalCenter))

\* The greedy choice of simulate for the agent's player: the first move whose
\* board has the best evaluation.
SimulationBest(moves, b, player, opponent) ==
    LET values == TheOne({[i \in 1..Len(moves) |->
                     evaluate(applyMove(b, moves[i]).result, player, opponent)]})
        best == CHOOSE i \in 1..Len(moves) :
                   /\ \A j \in 1..Len(moves) : ~Less(values[i], values[j])
                   /\ \A j \in 1..(i - 1) : Less(values[j], values[i])
    IN  moves[best]

\* activePlayers.indexOf(player): -1 where the player is not in the list.
IndexOf(active, player) ==
    IF \E i \in 1..Len(active) : active[i] = player
    THEN (CHOOSE i \in 1..Len(active) :
             /\ active[i] = player
             /\ \A j \in 1..(i - 1) : active[j] # player) - 1
    ELSE -1

\* One turn of the for loop of simulate on a board.  Without a move of the
\* player the loop ends on the board.  The player of the agent makes the
\* move of the best evaluation; for any other player the move is
\* moves[Math.floor(Math.random() * moves.length)], drawn anew at every
\* depth: any of the moves.  The boards are the boards the turn can lead to.
PlayoutTurn(agent, b, player) ==
    TheOne({ IF Len(moves) = 0
             THEN [ended |-> TRUE, boards |-> {b}]
             ELSE IF player = agent.player
             THEN [ended |-> FALSE,
                   boards |-> {applyMove(b, SimulationBest(moves, b, agent.player,
                                                           agent.opponent)).result}]
             ELSE [ended |-> FALSE,
                   boards |-> {applyMove(b, moves[i]).result : i \in 1..Len(moves)}] :
             moves \in {getAllPossibleMoves(b, player)} })

RECURSIVE Playout(_, _, _, _)
\* The for loop of simulate from a depth on, for the boards the draws of the
\* depths before can have led to: the boards it can end with.  agent holds
\* the player, the opponent and the activePlayers of the agent.
Playout(agent, boards, player, depth) ==
    IF depth >= DepthLimit \/ boards = {} THEN boards
    ELSE LET active == agent.activePlayers
             playerIndex == IndexOf(active, player)
             nextPlayerIndex == IF playerIndex >= 0
                                THEN (playerIndex + 1) % Len(active)
                                ELSE 0
         IN  TheOne({ UNION {t.boards : t \in {u \in turns : u.ended}}
                      \cup (IF Len(active) = 0
                            THEN UNION {t.boards : t \in {u \in turns : ~u.ended}}
                            ELSE Playout(agent,
                                         UNION {t.boards : t \in {u \in turns : ~u.ended}},
                                         active[nextPlayerIndex + 1], depth + 1)) :
                      turns \in { {PlayoutTurn(agent, b, player) : b \in boards} } })

\* MCTSAgent.simulate: the playout starts from a copy of the board of the
\* node, a new map with a copy of every cell ({ ...pos }), and every move is
\* made by applyMove; the results it can return are the evaluations of the
\* boards the playout can end with, each with the board of the node as the
\* call leaves it.
simulate(node, agent) ==
    LET copy == [cells |-> node.board, shared |-> FALSE]
    IN  { [value |-> evaluate(final, agent.player, agent.opponent),
           passed |-> IF copy.shared /\ cloneBoard(copy.cells).shared
                      THEN final ELSE node.board] :
            final \in Playout(agent, {copy.cells}, agent.player, 0) }

RECURSIVE backpropagateWinsAlways(_, _, _)
\* A variant of backpropagate that counts a win whatever the result is
\* (sensitivity of C22).
backpropagateWinsAlways(nodes, id, result) ==
    IF id = 0 THEN nodes
    ELSE backpropagateWinsAlways(
             [nodes EXCEPT ![id].visits = @ + 1, ![id].wins = @ + 1],
             nodes[id].parent, result)

RECURSIVE backpropagate(_, _, _)
\* MCTSAgent.backpropagate: from the node up to the root.
backpropagate(nodes, id, result) ==
    IF id = 0 THEN nodes
    ELSE backpropagate(
             [nodes EXCEPT ![id].visits = @ + 1,
                           ![id].wins = IF Less(JNumber(0), result) THEN @ + 1 ELSE @],
             nodes[id].parent, result)

\* The child of the root with the most visits, as mostVisitedChild finds it.
TreeMostVisitedChild(nodes) ==
    mostVisitedChild([nodes[1] EXCEPT
        !.children = [i \in 1..Len(nodes[1].children) |-> nodes[nodes[1].children[i]]]])

\* A board with the pieces given and no other.
BoardWith(pieces) ==
    [key \in BoardKeys |-> IF key \in DOMAIN pieces THEN pieces[key] ELSE NONE]

\* The pieces that hem in a piece of SOUTH at the tip of the north-east
\* corner: pieces of NORTH_EAST, who is not in the game and never moves, on
\* the third and the fourth row of the corner.  The piece of SOUTH has two
\* moves wherever it stands, to the other two of the three cells at the tip.
HemmedIn ==
    (<<8, -4>> :> SOUTH)
        @@ [key \in {<<6, -4>>, <<6, -3>>, <<6, -2>>,
                      <<5, -4>>, <<5, -3>>, <<5, -2>>, <<5, -1>>} |-> NORTH_EAST]

\* The agents and the boards they are asked on.  The agent is that of NORTH
\* in a game of SOUTH and NORTH; the boards are boards an import leaves: a
\* lone piece of NORTH at the tip of its corner, a piece of NORTH at the far
\* tip with a piece of SOUTH that is hemmed in, two pieces of NORTH with a
\* piece beside them to jump over and the piece of SOUTH that is hemmed in,
\* and a board without a piece of NORTH.
MctsInputs ==
    { [player |-> NORTH, opponent |-> SOUTH, activePlayers |-> <<SOUTH, NORTH>>,
       board |-> BoardWith(pieces)] :
        pieces \in { (<<4, -8>> :> NORTH),
                     (<<-4, 8>> :> NORTH) @@ HemmedIn,
                     (<<4, -8>> :> NORTH) @@ (<<4, -7>> :> NORTH)
                        @@ (<<3, -7>> :> NORTH_EAST) @@ HemmedIn,
                     (<<-4, 8>> :> SOUTH) } }

\* The game of an input after the import of its board with the player of the
\* agent to move: the agents are asked on the board of the game.
MctsInit ==
    /\ \E input \in MctsInputs :
          /\ activePlayers = input.activePlayers
          /\ board = input.board
          /\ currentPlayer = input.player
    /\ currentPlayerIndex = 0
    /\ selectedPosition = << >>
    /\ validMoves = << >>
    /\ winner = << >>
    /\ nImports = 1
    /\ aiMove = << >>
    /\ mcts = << >>
    /\ op = "importState"
    /\ ret = TRUE
    /\ nMoves = 0
    /\ WebIdle
    /\ SetupIdle
    /\ TurnIdle

\* What a step of the search leaves alone, and the board getBestMove was
\* passed as the step leaves it.
MctsFrame ==
    /\ board' = MctsPassed(mcts'[1].nodes[1], board)
    /\ UNCHANGED <<nMoves, activePlayers, currentPlayer,
                   currentPlayerIndex, selectedPosition, validMoves, winner,
                   nImports, webState, launchSettings, gameConfig, aiManager,
                   turnManager, tasks, frame, boardSystem, observers>>

\* getBestMove up to the loop: the root is made; without a move of the
\* player null is returned.
MctsRootMade ==
    /\ mcts = << >>
    /\ op' = "MCTSAgent.root"
    /\ \E input \in {i \in MctsInputs : i.board = board /\ i.player = currentPlayer} :
          LET root == [TreeNode(input.board, 0, << >>) EXCEPT
                          !.untriedMoves = getAllPossibleMoves(input.board,
                                                               input.player)]
              none == Len(root.untriedMoves) = 0
          IN  /\ mcts' = << [player |-> input.player, opponent |-> input.opponent,
                             activePlayers |-> input.activePlayers,
                             nodes |-> <<root>>, node |-> 0,
                             result |-> JNumber(0), iterationCount |-> 0,
                             at |-> IF none THEN "returned" ELSE "loop"] >>
              /\ ret' = ~none
    /\ aiMove' = << >>
    /\ MctsFrame

\* The first half of an iteration: the selection and the expansion.
MctsSelectExpand ==
    /\ mcts # << >>
    /\ mcts[1].at = "loop"
    /\ mcts[1].iterationCount < MaxIterations
    /\ op' = "MCTSAgent.expand"
    /\ \E selected \in select(mcts[1].nodes, 1) :
          LET untried == mcts[1].nodes[selected].untriedMoves IN
          IF Len(untried) > 0
          THEN \E random \in RandomDraws(Len(untried)) :
                  LET nodes == TreeExpand(mcts[1].nodes, selected, mcts[1].player,
                                          random % Len(untried))
                  IN  mcts' = << [mcts[1] EXCEPT
                                    !.iterationCount = @ + 1,
                                    !.nodes = nodes,
                                    !.node = Len(nodes),
                                    !.at = "expanded"] >>
          ELSE mcts' = << [mcts[1] EXCEPT !.iterationCount = @ + 1,
                                          !.node = selected,
                                          !.at = "expanded"] >>
    /\ ret' = TRUE
    /\ aiMove' = << >>
    /\ MctsFrame

\* The simulation from the node of the iteration.
MctsSimulate ==
    /\ mcts # << >>
    /\ mcts[1].at = "expanded"
    /\ op' = "MCTSAgent.simulate"
    /\ \E outcome \in simulate(mcts[1].nodes[mcts[1].node],
                                [player |-> mcts[1].player,
                                 opponent |-> mcts[1].opponent,
                                 activePlayers |-> mcts[1].activePlayers]) :
          mcts' = << [mcts[1] EXCEPT
                        !.result = outcome.value,
                        !.nodes[mcts[1].node].board = outcome.passed,
                        !.at = "simulated"] >>
    /\ ret' = TRUE
    /\ aiMove' = << >>
    /\ MctsFrame

\* The backpropagation of the result, which ends the iteration.
MctsBackpropagate ==
    /\ mcts # << >>
    /\ mcts[1].at = "simulated"
    /\ op' = "MCTSAgent.backpropagate"
    /\ mcts' = << [mcts[1] EXCEPT
                     !.nodes = backpropagate(@, mcts[1].node, mcts[1].result),
                     !.at = "loop"] >>
    /\ ret' = TRUE
    /\ aiMove' = << >>
    /\ MctsFrame

\* The end of the loop and what getBestMove returns: the move of the most
\* visited child of the root, or an untried move of the root drawn at random.
MctsReturn ==
    /\ mcts # << >>
    /\ mcts[1].at = "loop"
    /\ op' = "MCTSAgent.return"
    /\ LET root == mcts[1].nodes[1]
           best == TreeMostVisitedChild(mcts[1].nodes)
       IN  IF best # << >> /\ best[1].move # << >>
           THEN aiMove' = best[1].move
           ELSE IF Len(root.untriedMoves) > 0
           THEN \E random \in RandomDraws(Len(root.untriedMoves)) :
                   aiMove' = <<root.untriedMoves[(random % Len(root.untriedMoves)) + 1]>>
           ELSE aiMove' = << >>
    /\ mcts' = << [mcts[1] EXCEPT !.at = "returned"] >>
    /\ ret' = TRUE
    /\ MctsFrame

\* The search step by step, and beside it the calls of the greedy agent and
\* of the manager on the same boards.
MctsNext ==
    \/ MctsRootMade
    \/ MctsSelectExpand
    \/ MctsSimulate
    \/ MctsBackpropagate
    \/ MctsReturn
    \/ GreedyGetBestMove
    \/ GetAIMove

MctsSpec == MctsInit /\ [][MctsNext]_vars

RECURSIVE PathToRoot(_, _)
\* The nodes from a node up to the root.
PathToRoot(nodes, id) ==
    IF id = 0 THEN {} ELSE {id} \cup PathToRoot(nodes, nodes[id].parent)

\* The moves of a sequence of moves, as pairs of keys.
MoveKeys(moves) == [i \in 1..Len(moves) |-> <<toKey(moves[i].from), toKey(moves[i].to)>>]

\* The moves a node has tried or has yet to try, the untried ones first.
NodeMoves(nodes, id) ==
    MoveKeys(nodes[id].untriedMoves)
        \o [i \in 1..Len(nodes[id].children) |->
              <<toKey(nodes[nodes[id].children[i]].move[1].from),
                toKey(nodes[nodes[id].children[i]].move[1].to)>>]

\* C22: a backpropagation from a node with the result x adds one visit to the
\* node and to each of its ancestors up to the root, and one win to each of
\* them when x > 0 and none otherwise (the other nodes keep their counts);
\* and no node ever has more wins than visits.
C22_Backpropagation ==
    /\ [](mcts # << >> =>
            \A id \in 1..Len(mcts[1].nodes) :
               mcts[1].nodes[id].wins <= mcts[1].nodes[id].visits)
    /\ [][op' = "MCTSAgent.backpropagate" =>
            LET before == mcts[1].nodes
                after == mcts'[1].nodes
                x == mcts[1].result
                path == PathToRoot(before, mcts[1].node)
                won == IF x.num > 0 THEN 1 ELSE 0
            IN  /\ Len(after) = Len(before)
                /\ 1 \in path
                /\ \A id \in 1..Len(before) :
                      /\ after[id].visits
                            = before[id].visits + (IF id \in path THEN 1 ELSE 0)
                      /\ after[id].wins
                            = before[id].wins + (IF id \in path THEN won ELSE 0)]_vars

\* C22 happens: a positive result was backpropagated from a grandchild of
\* the root, and a result that is not positive from a child.
C22_Witness ==
    /\ op = "MCTSAgent.backpropagate"
    /\ mcts[1].result.num > 0
    /\ mcts[1].nodes[mcts[1].node].parent > 1
    /\ mcts[1].nodes[1].wins = 3

C22_WitnessLoss ==
    /\ op = "MCTSAgent.backpropagate"
    /\ mcts[1].result.num <= 0
    /\ mcts[1].nodes[mcts[1].node].parent > 1
    /\ mcts[1].nodes[1].visits = 3
    /\ mcts[1].nodes[1].wins = 0

\* C23: at every node of the tree the untried moves and the moves of the
\* children are all different and are together the legal moves of the
\* agent's player on the board of the node, and the board of every child is
\* the board of its parent with the move of the child made.
C23_TreeCoversLegalMoves ==
    mcts # << >> =>
       \A id \in 1..Len(mcts[1].nodes) :
          LET nodes == mcts[1].nodes
              node == nodes[id]
              moves == NodeMoves(nodes, id)
          IN  /\ \A i, j \in 1..Len(moves) : moves[i] = moves[j] => i = j
              /\ SeqRange(moves) = LegalMoves(node.board, mcts[1].player)
              /\ \A i \in 1..Len(node.children) :
                    LET child == nodes[node.children[i]]
                        from == toKey(child.move[1].from)
                        to == toKey(child.move[1].to)
                    IN  /\ child.parent = id
                        /\ child.board = [key \in DOMAIN node.board |->
                              IF key = from THEN NONE
                              ELSE IF key = to THEN mcts[1].player
                              ELSE node.board[key]]

\* C23 happens: the root has a child and an untried move left, and a child
\* of the root has a child of its own.
C23_Witness ==
    /\ mcts # << >>
    /\ \E id \in 1..Len(mcts[1].nodes) :
          /\ Len(mcts[1].nodes[id].children) > 0
          /\ Len(mcts[1].nodes[id].untriedMoves) > 0
    /\ \E id \in 1..Len(mcts[1].nodes) : mcts[1].nodes[id].parent > 1

-----------------------------------------------------------------------------
(* The game scene: TurnManager, FrameScheduler and the handlers of           *)
(* GameScene.  A handler makes several calls on the game logic and on the    *)
(* turn manager, so the calls are functions of a record of everything a      *)
(* handler can change (the world), and an action is one handler from its     *)
(* first call to its last.  A task of the scheduler is a record [id,         *)
(* remaining, action, player]: action is "postMove" or "ai", player the      *)
(* player engageAI was called with; a cancel handle is the id of its task    *)
(* (0 is null).                                                              *)

POST_MOVE_DELAY == 350

AI_THINKING_DELAY == 500

\* The time between two frames, in ms.
FrameDeltas == {250, 500}

\* The state a handler starts from.
World ==
    [board |-> board, currentPlayer |-> currentPlayer,
     currentPlayerIndex |-> currentPlayerIndex,
     selectedPosition |-> selectedPosition, validMoves |-> validMoves,
     winner |-> winner, nMoves |-> nMoves, nImports |-> nImports,
     aiMove |-> << >>, ret |-> TRUE,
     isAIThinking |-> turnManager[1].isAIThinking,
     postMoveCancel |-> turnManager[1].postMoveCancel,
     aiCancel |-> turnManager[1].aiCancel,
     tasks |-> tasks, finished |-> << >>, ran |-> << >>,
     pieceMeshes |-> boardSystem[1].pieceMeshes,
     activeHighlights |-> boardSystem[1].activeHighlights]

\* The state a handler ends with.
Adopt(w) ==
    /\ board' = w.board
    /\ currentPlayer' = w.currentPlayer
    /\ currentPlayerIndex' = w.currentPlayerIndex
    /\ selectedPosition' = w.selectedPosition
    /\ validMoves' = w.validMoves
    /\ winner' = w.winner
    /\ nMoves' = w.nMoves
    /\ nImports' = w.nImports
    /\ aiMove' = w.aiMove
    /\ turnManager' = << [isAIThinking |-> w.isAIThinking,
                          postMoveCancel |-> w.postMoveCancel,
                          aiCancel |-> w.aiCancel] >>
    /\ tasks' = w.tasks
    /\ boardSystem' = << [pieceMeshes |-> w.pieceMeshes,
                          activeHighlights |-> w.activeHighlights] >>
    /\ UNCHANGED <<activePlayers, webState, launchSettings, gameConfig, aiManager,
                   mcts, observers>>

\* GameLogic.selectPiece
selectPiece(w, pos) ==
    IF CanSelect(w.board, w.currentPlayer, pos)
    THEN [w EXCEPT !.selectedPosition = <<pos>>,
                   !.validMoves = calculateValidMoves(w.board, pos),
                   !.ret = TRUE]
    ELSE [w EXCEPT !.ret = FALSE]

\* GameLogic.movePiece
movePiece(w, to) ==
    IF w.selectedPosition = << >> \/ ~IsValidMove(w.validMoves, to)
    THEN [w EXCEPT !.ret = FALSE]
    ELSE LET moved == TransferPiece(w.board, toKey(w.selectedPosition[1]), toKey(to))
             totalPlayers == Len(activePlayers)
             nextIndex == (w.currentPlayerIndex + 1) % totalPlayers
             won == checkWin(moved, w.currentPlayer)
         IN  [w EXCEPT
                !.board = moved,
                !.winner = IF won THEN <<w.currentPlayer>> ELSE @,
                !.currentPlayerIndex =
                    IF ~won /\ totalPlayers > 0 THEN nextIndex ELSE @,
                !.currentPlayer =
                    IF ~won /\ totalPlayers > 0
                    THEN PlayerAt(activePlayers, nextIndex) ELSE @,
                !.selectedPosition = << >>,
                !.validMoves = << >>,
                !.nMoves = @ + 1,
                !.ret = TRUE]

\* GameLogic.deselectPiece
deselectPiece(w) == [w EXCEPT !.selectedPosition = << >>, !.validMoves = << >>]

\* GameLogic.importState
importState(w, state) ==
    LET checks == ImportChecks(w.board, state) IN
    IF checks.ok
    THEN [w EXCEPT !.currentPlayer = state.currentPlayer.num,
                   !.board = ApplyPlayers(w.board, checks.players),
                   !.selectedPosition = << >>,
                   !.validMoves = << >>,
                   !.winner = << >>,
                   !.nImports = @ + 1,
                   !.ret = TRUE]
    ELSE [w EXCEPT !.ret = FALSE]

\* A variant of Board.movePiece that leaves the meshes where they are
\* (sensitivity of C39).
Board_movePieceStill(w, from, to) == w

\* Board.movePiece: the mesh kept under the key of from, if there is one, is
\* kept under the key of to.
Board_movePiece(w, from, to) ==
    IF toKey(from) \in w.pieceMeshes
    THEN [w EXCEPT !.pieceMeshes = (@ \ {toKey(from)}) \cup {toKey(to)}]
    ELSE w

\* Board.clearHighlights
clearHighlights(w) == [w EXCEPT !.activeHighlights = {}]

\* Board.highlightPositions: the highlights of before are released and a
\* mesh is put on each of the positions.
highlightPositions(w, positions) == [w EXCEPT !.activeHighlights = KeysOf(positions)]

\* Board.refreshPieces: the meshes are disposed of and made anew, one for
\* each cell of the board that holds a piece.
refreshPieces(w) == [w EXCEPT !.pieceMeshes = OccupiedCells(w.board)]

\* The ids of the tasks of a sequence.
TaskIds(seq) == {seq[i].id : i \in 1..Len(seq)}

\* The task object a call of schedule makes is a new one: its id is the
\* least that no task in the set, no task of the flush under way and no
\* handle held stands for.
FreshId(w) ==
    LET used == TaskIds(w.tasks) \cup TaskIds(w.finished)
                    \cup {w.postMoveCancel, w.aiCancel}
    IN  CHOOSE id \in 1..(Cardinality(used) + 1) :
           /\ id \notin used
           /\ \A other \in 1..(id - 1) : other \in used

\* this.tasks.delete(task)
DeleteTask(seq, id) ==
    LET Other(task) == task.id # id IN SelectSeq(seq, Other)

\* FrameScheduler.schedule
schedule(w, delayMs, action, player) ==
    [w EXCEPT !.tasks = Append(@, [id |-> FreshId(w), remaining |-> delayMs,
                                   action |-> action, player |-> player])]

\* TurnManager.cancelPostMove
cancelPostMove(w) ==
    IF w.postMoveCancel # 0
    THEN [w EXCEPT !.tasks = DeleteTask(@, w.postMoveCancel), !.postMoveCancel = 0]
    ELSE w

\* TurnManager.cancelAI
cancelAI(w) ==
    IF w.aiCancel # 0
    THEN [w EXCEPT !.tasks = DeleteTask(@, w.aiCancel), !.aiCancel = 0]
    ELSE w

\* A variant of cancel that leaves the flag as it is (sensitivity of C35).
cancelKeepsThinking(w) == cancelAI(cancelPostMove(w))

\* TurnManager.cancel
cancel(w) == [cancelAI(cancelPostMove(w)) EXCEPT !.isAIThinking = FALSE]

\* TurnManager.schedulePostMoveActions
schedulePostMoveActions(w) ==
    LET cancelled == cancelPostMove(w)
    IN  [schedule(cancelled, POST_MOVE_DELAY, "postMove", NONE)
            EXCEPT !.postMoveCancel = FreshId(cancelled)]

\* TurnManager.engageAI
engageAI(w, player) ==
    LET thinking == [w EXCEPT !.isAIThinking = TRUE]
    IN  [schedule(thinking, AI_THINKING_DELAY, "ai", player)
            EXCEPT !.aiCancel = FreshId(thinking)]

\* TurnManager.checkAITurn
checkAITurn(w) ==
    IF /\ isAIPlayer(aiManager[1].agents, w.currentPlayer)
       /\ ~w.isAIThinking
       /\ w.winner = << >>
    THEN engageAI(w, w.currentPlayer)
    ELSE w

\* A variant of isHumanTurnLocked that never locks (sensitivity of C36).
isHumanTurnLockedNever(w) == FALSE

\* TurnManager.isHumanTurnLocked
isHumanTurnLocked(w) ==
    w.isAIThinking \/ isAIPlayer(aiManager[1].agents, w.currentPlayer)

\* The agent of a player: its type, or "none" where the player has no agent.
AgentKind(player) ==
    IF player \in DOMAIN aiManager[1].agents
    THEN aiManager[1].agents[player].type ELSE "none"

\* A variant of the branch of the task for an agent without a move that
\* leaves the flag as it is (sensitivity of C25).
AgentGaveNoMoveStaysThinking(w) == w

\* The branch of the task of engageAI for an agent that returned null.
AgentGaveNoMove(w) == [w EXCEPT !.isAIThinking = FALSE]

\* What ran in a flush is noted in w.ran: the action, the player and the
\* outcome.
Ran(w, action, player, outcome) ==
    [w EXCEPT !.ran = Append(@, [action |-> action, player |-> player,
                                 outcome |-> outcome])]

\* The end of the task of engageAI, after logic.movePiece(move.to).
AiMoved(moved, player) ==
    IF moved.ret
    THEN Ran(schedulePostMoveActions(
                 [clearHighlights(moved) EXCEPT !.isAIThinking = FALSE]),
             "ai", player, "moved")
    ELSE Ran([moved EXCEPT !.isAIThinking = FALSE], "ai", player, "failed")

\* The task of engageAI from the answer of the agent on.
AiAnswered(w, player, answer) ==
    IF answer.move = << >>
    THEN Ran(AgentGaveNoMove([w EXCEPT !.board = answer.passed]), "ai", player,
             "none")
    ELSE AiMoved(movePiece(Board_movePiece(
                               selectPiece([w EXCEPT !.board = answer.passed,
                                                     !.aiMove = answer.move],
                                           answer.move[1].from),
                               answer.move[1].from, answer.move[1].to),
                           answer.move[1].to),
                 player)

\* The task engageAI schedules.
AiTask(w, player, iterations, random) ==
    AiAnswered(w, player,
               AIManager_getAIMove(AgentKind(player), player, w.board, iterations,
                                   random))

\* The task schedulePostMoveActions schedules.
PostMoveTask(w) == Ran(checkAITurn(w), "postMove", NONE, "checked")

RECURSIVE RunFinished(_, _, _, _)
\* finished.forEach of flush from the i-th task on: the task is deleted from
\* the set and its action is run, whether or not an action before it has
\* cancelled it.
RunFinished(w, i, iterations, random) ==
    IF i > Len(w.finished) THEN w
    ELSE LET task == w.finished[i]
             deleted == [w EXCEPT !.tasks = DeleteTask(@, task.id)]
         IN  TheOne({ RunFinished(after, i + 1, iterations, random) :
                        after \in { IF task.action = "ai"
                                    THEN AiTask(deleted, task.player, iterations,
                                                random)
                                    ELSE PostMoveTask(deleted) } })

\* The first loop of flush: every task is aged by delta.
Aged(seq, delta) == [i \in 1..Len(seq) |-> [seq[i] EXCEPT !.remaining = @ - delta]]

\* FrameScheduler.flush
flush(w, delta, iterations, random) ==
    LET aged == Aged(w.tasks, delta)
        Due(task) == task.remaining <= 0
    IN  RunFinished([w EXCEPT !.tasks = aged, !.finished = SelectSeq(aged, Due)],
                    1, iterations, random)

\* The options the scene is entered with: against a greedy agent, a greedy
\* agent that moves first, and two humans.
TurnSetups ==
    { SetupOptions(<<"ai">>, << >>, << >>, << >>, <<"greedy">>, << >>, << >>),
      SetupOptions(<<"multiplayer">>, <<2>>, << <<"ai", "human">> >>, << >>,
                   <<"greedy">>, << >>, << >>),
      SetupOptions(<< >>, << >>, << >>, << >>, << >>, << >>, << >>) }

\* North to move, one jump from a win: nine north pieces in the south corner,
\* the tenth two cells in front of the one free goal cell, (-3, 6), with the
\* piece at (-3, 5) between.
NorthOneJumpFromWin ==
    StateObject(JNumber(NORTH),
        PiecesOf(<< <<-4, 8>>, <<-4, 7>>, <<-3, 7>>, <<-4, 6>>, <<-2, 6>>,
                    <<-4, 5>>, <<-3, 5>>, <<-2, 5>>, <<-1, 5>>, <<-3, 4>> >>, NORTH))

\* The records pasted for an import: a board on which NORTH, to move, has no
\* piece, a board on which NORTH, to move, is one jump from a win, the start
\* position of the game with NORTH to move, and text that is not JSON.
TurnImports == {NorthHasNoPiece, NorthOneJumpFromWin, NorthToMove, NotJson}

\* TurnManager.start on the turn manager of a scene that has just been made,
\* which holds no task: checkAITurn for the player who moves first.
Started ==
    checkAITurn([board |-> board, currentPlayer |-> currentPlayer,
                 currentPlayerIndex |-> currentPlayerIndex,
                 selectedPosition |-> selectedPosition, validMoves |-> validMoves,
                 winner |-> winner, nMoves |-> nMoves, nImports |-> nImports,
                 aiMove |-> << >>, ret |-> TRUE,
                 isAIThinking |-> FALSE, postMoveCancel |-> 0, aiCancel |-> 0,
                 tasks |-> << >>, finished |-> << >>, ran |-> << >>])

\* GameScene.onEnter: the session is created from the options the scene is
\* given, or from the launch settings of the session before when the game is
\* started again; the runtime config is taken from it; the board system
\* makes the board of that config and a mesh for every piece, the game logic
\* is constructed on that board, the AIManager with that config, then the
\* scheduler, the turn manager and the pointer system, and the turn manager
\* is started: the agent of the player who moves first is engaged. A scene
\* is not set up where a manager was constructed directly: the two are
\* separate runs.
SceneSetup ==
    /\ aiManager # << >> => launchSettings # << >>
    /\ \E options \in SetupInputs \cup
                    {toLaunchSettings(launchSettings[i]) : i \in 1..Len(launchSettings)} :
         /\ op' = "GameSession.create"
         /\ ret' = options.playerCount
         /\ launchSettings' = <<GameSession_create(options)>>
         /\ gameConfig' = <<cloneConfig(launchSettings'[1].gameConfig)>>
         /\ aiManager' = <<[config |-> gameConfig'[1],
                            agents |-> initializeAgents(gameConfig'[1])]>>
         /\ activePlayers' = gameConfig'[1].activePlayers
         /\ board' = BoardOfScene(activePlayers')
         /\ boardSystem' = << [pieceMeshes |-> OccupiedCells(board'),
                               activeHighlights |-> {}] >>
         /\ currentPlayer' = PlayerAt(activePlayers', 0)
         /\ currentPlayerIndex' = 0
         /\ selectedPosition' = << >>
         /\ validMoves' = << >>
         /\ winner' = << >>
         /\ nMoves' = 0
         /\ nImports' = 0
         /\ aiMove' = << >>
         /\ turnManager' = << [isAIThinking |-> Started'.isAIThinking,
                               postMoveCancel |-> Started'.postMoveCancel,
                               aiCancel |-> Started'.aiCancel] >>
         /\ tasks' = Started'.tasks
         /\ observers' = {"frame", "pointer"}
         /\ UNCHANGED <<webState, mcts, frame>>

SetupNext ==
    \/ SceneSetup
    \/ BuildMultiplayerConfig
    \/ NewAIManager
    \/ UpdateOpponents
    \/ \E player \in SeqRange(allCorners) : \E difficulty \in Difficulties :
          SetAIDifficulty(player, difficulty)

SetupSpec == SetupInit /\ [][SetupNext]_vars

\* GameScene.onEnter: the session, the runtime config, the board, the game
\* logic, the AIManager and the TurnManager are made, and the TurnManager is
\* started.
TurnInit ==
    /\ \E options \in TurnSetups :
          /\ launchSettings = <<GameSession_create(options)>>
          /\ gameConfig = <<cloneConfig(launchSettings[1].gameConfig)>>
          /\ aiManager = <<[config |-> gameConfig[1],
                            agents |-> initializeAgents(gameConfig[1])]>>
    /\ activePlayers = gameConfig[1].activePlayers
    /\ board = createBoard(activePlayers)
    /\ currentPlayer = PlayerAt(activePlayers, 0)
    /\ currentPlayerIndex = 0
    /\ selectedPosition = << >>
    /\ validMoves = << >>
    /\ winner = << >>
    /\ nMoves = 0
    /\ nImports = 0
    /\ aiMove = << >>
    /\ op = "GameScene.onEnter"
    /\ ret = << >>
    /\ frame = 0
    /\ observers = {"frame", "pointer"}
    /\ turnManager = << [isAIThinking |-> Started.isAIThinking,
                         postMoveCancel |-> Started.postMoveCancel,
                         aiCancel |-> Started.aiCancel] >>
    /\ tasks = Started.tasks
    /\ boardSystem = << [pieceMeshes |-> OccupiedCells(board),
                         activeHighlights |-> {}] >>
    /\ WebIdle
    /\ MctsIdle

\* The end of handlePieceSelection, after logic.selectPiece(pos): when it
\* succeeded, the highlights are cleared and put on the valid moves.
Highlighted(selected) ==
    IF selected.ret THEN highlightPositions(clearHighlights(selected), selected.validMoves)
    ELSE selected

\* GameScene.handlePieceSelection
handlePieceSelection(w, pos) ==
    IF isHumanTurnLocked(w) THEN [w EXCEPT !.ret = FALSE]
    ELSE IF ~CanSelect(w.board, w.currentPlayer, pos) THEN [w EXCEPT !.ret = FALSE]
    ELSE Highlighted(selectPiece(w, pos))

\* TurnManager.handlePlayerMoveCommitted, when the move succeeded.
MoveCommitted(moved) ==
    IF moved.ret THEN schedulePostMoveActions(clearHighlights(moved)) ELSE moved

\* GameScene.handleMove
handleMove(w, toPos) ==
    IF isHumanTurnLocked(w) \/ w.selectedPosition = << >>
    THEN [w EXCEPT !.ret = FALSE]
    ELSE MoveCommitted(movePiece(Board_movePiece(w, w.selectedPosition[1], toPos),
                                 toPos))

\* A variant of the calls after an import without TurnManager.cancel
\* (sensitivity of C37).
StateMutatedWithoutCancel(imported) ==
    IF imported.ret THEN checkAITurn(refreshPieces(clearHighlights(imported)))
    ELSE imported

\* TurnManager.cancel, clearHighlights, refreshPieces and
\* handleStateMutated, when the import succeeded.
StateMutated(imported) ==
    IF imported.ret THEN checkAITurn(refreshPieces(clearHighlights(cancel(imported))))
    ELSE imported

\* GameScene.applySerializedState
applySerializedState(w, state) == StateMutated(importState(w, state))

\* What a handler of the scene did is noted as what a flush ran is: the
\* handler, and whether the call on the game logic it came to succeeded.
Handled(action, w) ==
    << [action |-> action, player |-> NONE,
        outcome |-> IF w.ret THEN "true" ELSE "false"] >>

\* A pointer event on the mesh of a piece: onPiece is called with the
\* position of the mesh.
ScenePieceSelection(pos) ==
    /\ "pointer" \in observers
    /\ toKey(pos) \in boardSystem[1].pieceMeshes
    /\ op' = "GameScene.handlePieceSelection"
    /\ \E after \in {handlePieceSelection(World, pos)} :
          /\ Adopt(after)
          /\ ret' = Handled("handlePieceSelection", after)
    /\ frame' = frame

\* A pointer event on the mesh of an active highlight: onHighlight is
\* called with the position of the mesh.
SceneMove(toPos) ==
    /\ "pointer" \in observers
    /\ toKey(toPos) \in boardSystem[1].activeHighlights
    /\ nMoves < MaxMoves
    /\ op' = "GameScene.handleMove"
    /\ \E after \in {handleMove(World, toPos)} :
          /\ Adopt(after)
          /\ ret' = Handled("handleMove", after)
    /\ frame' = frame

\* The pointer event on an empty place: the piece is deselected.
SceneEmpty ==
    /\ "pointer" \in observers
    /\ op' = "GameScene.onEmpty"
    /\ \E after \in {clearHighlights(deselectPiece(World))} :
          /\ Adopt(after)
          /\ ret' = Handled("onEmpty", after)
    /\ frame' = frame

\* A record is pasted for an import.  handleImport waits for the clipboard
\* before it calls applySerializedState, so the scene may have been left
\* meanwhile: the import is applied all the same, and the task it schedules
\* for an agent is held by a scheduler that no frame flushes.
SceneImport(state) ==
    /\ nImports < MaxImports
    /\ op' = "GameScene.applySerializedState"
    /\ \E after \in {applySerializedState(World, state)} :
          /\ Adopt(after)
          /\ ret' = Handled("applySerializedState", after)
    /\ frame' = frame

\* The moves an agent draws among when it is asked on a board.
AgentChoices(player, b) ==
    IF AgentKind(player) = "greedy" THEN Len(GreedyBestMoves(b, player).bestMoves)
    ELSE IF AgentKind(player) = "mcts" THEN Len(getAllPossibleMoves(b, player))
    ELSE 0

\* A frame: the scheduler flushes its tasks, and the parity of the frames
\* flips.  iterations and random stand
\* for the clock and the draw of Math.random() of the agent that is asked;
\* the moves committed stay within the bound of the exploration.
Flush(delta) ==
    /\ "frame" \in observers
    /\ tasks # << >>
    /\ op' = "FrameScheduler.flush"
    /\ LET aged == Aged(tasks, delta)
           IsAsk(task) == task.remaining <= 0 /\ task.action = "ai"
           asks == SelectSeq(aged, IsAsk)
           choices == IF asks = << >> THEN 0 ELSE AgentChoices(asks[1].player, board)
       IN  \E iterations \in (IF asks = << >> THEN {0} ELSE MctsIterations) :
           \E random \in RandomDraws(choices) :
           \E after \in {flush(World, delta, iterations, random)} :
              /\ after.nMoves <= MaxMoves
              /\ Adopt(after)
              /\ ret' = after.ran
    /\ frame' = 1 - frame

\* GameScene.onExit, when the HUD starts the game again, starts a new game or
\* goes back to the menu: the pointer system is disposed, the turn manager
\* cancels its tasks, the scheduler removes its observer and clears its
\* tasks, and the board system disposes its meshes.  The board of the game
\* logic stays as it is.  Nothing of this scene runs after it.
SceneExit ==
    /\ observers # {}
    /\ op' = "GameScene.onExit"
    /\ ret' = << >>
    /\ \E cancelled \in {cancel(World)} :
          turnManager' = << [isAIThinking |-> cancelled.isAIThinking,
                             postMoveCancel |-> cancelled.postMoveCancel,
                             aiCancel |-> cancelled.aiCancel] >>
    /\ tasks' = << >>
    /\ boardSystem' = << [pieceMeshes |-> {}, activeHighlights |-> {}] >>
    /\ observers' = {}
    /\ UNCHANGED <<nMoves, coreVars, webState, launchSettings, gameConfig,
                   aiManager, mcts, frame>>

\* The cells of the pointer events: a piece of SOUTH and a piece of NORTH
\* in the front rows, and a cell each of them can step to.
TurnPositions == {Pos(-1, 5), Pos(-1, 4), Pos(1, -5), Pos(0, -4)}

TurnNext ==
    \/ \E pos \in TurnPositions : ScenePieceSelection(pos)
    \/ \E toPos \in TurnPositions : SceneMove(toPos)
    \/ SceneEmpty
    \/ \E state \in TurnImports : SceneImport(state)
    \/ \E delta \in FrameDeltas : Flush(delta)
    \/ SceneExit

TurnSpec == TurnInit /\ [][TurnNext]_vars

\* C25: when the task of engageAI runs for the player to move, who has an
\* agent, and the agent returns null, no cell changes its occupant, the
\* player to move and the winner stay, the flag isAIThinking is false after
\* it, and no task is scheduled: the scheduler holds no task it did not hold
\* before, and the index of the turn stays.
C25_NoMoveStopsTheTurn ==
    [][(/\ op' = "FrameScheduler.flush"
        /\ ret' = << [action |-> "ai", player |-> currentPlayer, outcome |-> "none"] >>
        /\ isAIPlayer(aiManager[1].agents, currentPlayer))
       => /\ board' = board
          /\ currentPlayer' = currentPlayer
          /\ currentPlayerIndex' = currentPlayerIndex
          /\ winner' = winner
          /\ aiMove' = << >>
          /\ ~turnManager'[1].isAIThinking
          /\ TaskIds(tasks') \subseteq TaskIds(tasks)]_vars

\* C25 happens: the agent of the player to move was asked and returned null.
C25_Witness ==
    /\ op = "FrameScheduler.flush"
    /\ ret = << [action |-> "ai", player |-> currentPlayer, outcome |-> "none"] >>
    /\ isAIPlayer(aiManager[1].agents, currentPlayer)
    /\ aiMove = << >>
    /\ ~turnManager[1].isAIThinking
    /\ LegalMoves(board, currentPlayer) = {}


\* C32: for every board and every piece on it, the set of destinations that
\* MoveUtils.getAllPossibleMoves produces for the piece equals the validMoves
\* that GameLogic computes when the piece is selected.
C32_GeneratorsAgree ==
    \A player \in SeqRange(allCorners) :
        \A all \in {getAllPossibleMoves(board, player)} :
            \A key \in {k \in DOMAIN board : board[k] = player} :
                {toKey(all[i].to) : i \in {j \in 1..Len(all) : toKey(all[j].from) = key}}
                    = KeysOf(calculateValidMoves(board, Pos(key[1], key[2])))

\* A piece is selected whose moves hold a long jump and a landing that two
\* jumps reach, and the generator of the agents lists these landings for it.
C32_Witness ==
    /\ selectedPosition = <<Pos(4, -8)>>
    /\ KeysOf(validMoves) = KeysOf(MoveUtils_calculateValidMoves(board, Pos(4, -8)))
    /\ \E m \in SeqRange(getAllPossibleMoves(board, board[<<4, -8>>])) :
          /\ toKey(m.from) = <<4, -8>>
          /\ toKey(m.to) = <<2, -2>>
    /\ <<4, -4>> \in KeysOf(MoveUtils_calculateValidMoves(board, Pos(4, -8)))
    /\ <<2, -2>> \in OneJump(board, <<4, -8>>, <<0, -2>>)
    /\ <<2, -2>> \in OneJump(board, <<4, -8>>, <<2, -4>>)


\* C33 (as stated): in every reachable state, currentPlayer is a member of
\* activePlayers and equals activePlayers[currentPlayerIndex].
C33_CurrentPlayerIsIndexed ==
    /\ currentPlayer \in SeqRange(activePlayers)
    /\ currentPlayerIndex + 1 \in 1..Len(activePlayers)
    /\ currentPlayer = activePlayers[currentPlayerIndex + 1]


\* A frame of the render loop while the scheduler holds a task: the observer
\* of onBeforeRenderObservable calls flush with the time since the frame
\* before.  (Within MaxMoves a flush is possible whenever there is a task: it
\* runs at most one task of engageAI.)
Frame ==
    "frame" \in observers /\ tasks # << >> /\ nMoves < MaxMoves /\ frame' = 1 - frame

\* The game scene under continued frame updates: the render loop calls the
\* observer of the scheduler before every frame, so while the scheduler holds
\* a task, a flush comes.
TurnLiveSpec == TurnInit /\ [][TurnNext]_vars /\ WF_frame(Frame)

\* It is the turn of a player with an agent, no winner is set and the player
\* has a legal move.
AITurnWithMove ==
    /\ isAIPlayer(aiManager[1].agents, currentPlayer)
    /\ winner = << >>
    /\ getAllPossibleMoves(board, currentPlayer) # << >>

\* The task of engageAI has just committed a move.
AiMoveCommitted ==
    /\ op = "FrameScheduler.flush"
    /\ \E i \in 1..Len(ret) : ret[i].action = "ai" /\ ret[i].outcome = "moved"

\* Whenever it is the turn of an AI player, no winner is set and the player
\* has a legal move, a move of the AI is eventually committed, as long as
\* the frames go on (leaving the scene ends them) and no state is imported
\* meanwhile (an import puts the question anew for the state it brings).
AiMoveEventuallyCommitted ==
    \A n \in 0..(MaxMoves - 1) : \A k \in 0..MaxImports :
       (nMoves = n /\ nImports = k /\ AITurnWithMove)
           ~> (\/ nImports > k
               \/ "frame" \notin observers
               \/ (AiMoveCommitted /\ nMoves = n + 1))

\* C34 (as stated): whenever it is the turn of an AI player, no winner is set
\* and the player has a legal move, then under continued frame updates a
\* move of the AI is eventually committed and the turn advances, after the
\* start of the game, after a move of a human and after a successful import
\* alike: the move is one of the player whose turn it was, and unless it
\* has won the game (which ends it), the player to move after it is the
\* player after the mover in activePlayers.
C34_AiMoveAdvancesTurn ==
    /\ AiMoveEventuallyCommitted
    /\ [][AiMoveCommitted' =>
            /\ isAIPlayer(aiManager[1].agents, currentPlayer)
            /\ ret' = << [action |-> "ai", player |-> currentPlayer,
                          outcome |-> "moved"] >>
            /\ nMoves' = nMoves + 1
            /\ TransferPiece(board, toKey(aiMove'[1].from), toKey(aiMove'[1].to)) = board'
            /\ winner' = << >> =>
                  currentPlayer' = FollowerOf(activePlayers, currentPlayer)]_vars

\* A move of the AI that does not win has been committed after an import,
\* and the mover is the player to move again.
AiMovesAgainAfterImport ==
    /\ AiMoveCommitted
    /\ nImports = 1
    /\ winner = << >>
    /\ ret = << [action |-> "ai", player |-> currentPlayer, outcome |-> "moved"] >>


\* The tasks of engageAI the scheduler holds.
PendingAiTasks == {i \in 1..Len(tasks) : tasks[i].action = "ai"}

\* C35: at any time at most one task of engageAI is pending in the
\* scheduler, and the flag isAIThinking is true exactly while such a task is
\* pending (between the handlers and the frames; the handle aiCancel then
\* stands for that task).
C35_OneAiTaskWhileThinking ==
    /\ Cardinality(PendingAiTasks) <= 1
    /\ turnManager[1].isAIThinking <=> PendingAiTasks # {}
    /\ \A i \in PendingAiTasks : tasks[i].id = turnManager[1].aiCancel

\* C35 happens: the agent is thinking, with its one task pending beside the
\* handle of a post-move task that has run.
C35_Witness ==
    /\ turnManager[1].isAIThinking
    /\ Cardinality(PendingAiTasks) = 1
    /\ nMoves > 0
    /\ op = "FrameScheduler.flush"


\* The handlers of the pointer events: onPiece, onHighlight and onEmpty.
PointerHandlers ==
    {"GameScene.handlePieceSelection", "GameScene.handleMove", "GameScene.onEmpty"}

\* C36: while the player to move has an agent or a move of an agent is
\* pending, no pointer event (on a piece, on a highlighted cell or on an
\* empty place) changes the occupant of a cell, the player to move or the
\* winner.
C36_PointerLockedOnAiTurn ==
    [][(/\ op' \in PointerHandlers
        /\ \/ isAIPlayer(aiManager[1].agents, currentPlayer)
           \/ turnManager[1].isAIThinking
           \/ PendingAiTasks # {})
       => /\ board' = board
          /\ currentPlayer' = currentPlayer
          /\ currentPlayerIndex' = currentPlayerIndex
          /\ winner' = winner
          /\ nMoves' = nMoves]_vars

\* C36 happens: a piece of the agent's player was clicked while the agent
\* was thinking after a move of the human, and nothing was selected or
\* moved.
C36_Witness ==
    /\ op = "GameScene.handlePieceSelection"
    /\ ret = << [action |-> "handlePieceSelection", player |-> NONE,
                 outcome |-> "false"] >>
    /\ selectedPosition = << >>
    /\ isAIPlayer(aiManager[1].agents, currentPlayer)
    /\ turnManager[1].isAIThinking
    /\ PendingAiTasks # {}
    /\ nMoves = 1
    /\ board[<<1, -5>>] = currentPlayer
    /\ board[<<0, -4>>] = NONE


\* An import has just succeeded.
ImportSucceeded ==
    /\ op = "GameScene.applySerializedState"
    /\ ret = << [action |-> "applySerializedState", player |-> NONE,
                 outcome |-> "true"] >>

\* C37: after a successful import no task scheduled before it is left in the
\* scheduler, so none ever runs: the scheduler holds nothing but the task of
\* engageAI that handleStateMutated has just scheduled for the imported
\* player to move, if that player has an agent, and the handles stand for
\* nothing else; and a task of engageAI that runs asks the agent for the
\* player to move on the board of that moment, so no move computed for the
\* position before the import is applied to the imported one.
C37_ImportDropsTasks ==
    [][/\ ImportSucceeded' =>
            /\ turnManager'[1].postMoveCancel = 0
            /\ \A i \in 1..Len(tasks') :
                  /\ tasks'[i].action = "ai"
                  /\ tasks'[i].remaining = AI_THINKING_DELAY
                  /\ tasks'[i].player = currentPlayer'
                  /\ tasks'[i].id = turnManager'[1].aiCancel
            /\ Len(tasks') =
                  (IF isAIPlayer(aiManager[1].agents, currentPlayer') THEN 1 ELSE 0)
            /\ turnManager'[1].isAIThinking = (tasks' # << >>)
       /\ op' = "FrameScheduler.flush" =>
            \A i \in 1..Len(ret') :
                ret'[i].action = "ai" =>
                    /\ ret'[i].player = currentPlayer
                    /\ ret'[i].outcome = "moved" =>
                          /\ board[toKey(aiMove'[1].from)] = currentPlayer
                          /\ board[toKey(aiMove'[1].to)] = NONE
                          /\ board' = TransferPiece(board, toKey(aiMove'[1].from),
                                                    toKey(aiMove'[1].to))]_vars

\* C37 happens: against an agent the human has moved, so that a task was
\* pending, and a state was then imported with success; the one task is the
\* new one for the imported player to move.
C37_Witness ==
    /\ ImportSucceeded
    /\ nMoves = 1
    /\ currentPlayer = NORTH
    /\ isAIPlayer(aiManager[1].agents, NORTH)
    /\ ~isAIPlayer(aiManager[1].agents, SOUTH)
    /\ Len(tasks) = 1
    /\ tasks[1].remaining = AI_THINKING_DELAY


-----------------------------------------------------------------------------
(* The FrameScheduler on its own, with any client.  The client keeps the     *)
(* cancel function of a task in one of a few places (the id of a task is the *)
(* place its handle is kept in, as postMoveCancel and aiCancel are for the   *)
(* TurnManager) and schedules a task for a place when no pending task has    *)
(* its handle there.  An action either does nothing to the scheduler         *)
(* ("note") or calls the cancel function kept in the place target            *)
(* ("cancel").                                                               *)

\* The places of the handles.
Slots == {1, 2, 3}

\* The delays the client schedules with.
Delays == {250, 500}

\* The actions the client schedules: [action, target].
Callbacks ==
    {[action |-> "note", target |-> 0]}
        \cup {[action |-> "cancel", target |-> slot] : slot \in Slots}

RECURSIVE RunCallbacks(_, _, _, _, _)
\* finished.forEach of flush from the i-th task on, for the tasks set of the
\* scheduler: the task is deleted from the set and its action is called.
\* cancelled holds the tasks whose cancel function was called in this flush
\* before their action had started; ran notes each action called, and whether
\* the task had been cancelled.
RunCallbacks(set, finished, i, cancelled, ran) ==
    IF i > Len(finished) THEN [tasks |-> set, ran |-> ran]
    ELSE LET task == finished[i]
             deleted == DeleteTask(set, task.id)
             notStarted == {finished[j].id : j \in (i + 1)..Len(finished)}
                               \cup TaskIds(deleted)
             called == [id |-> task.id, action |-> task.action,
                        cancelled |-> task.id \in cancelled]
         IN  IF task.action = "cancel"
             THEN RunCallbacks(DeleteTask(deleted, task.target), finished, i + 1,
                               cancelled \cup ({task.target} \cap notStarted),
                               Append(ran, called))
             ELSE RunCallbacks(deleted, finished, i + 1, cancelled,
                               Append(ran, called))

\* FrameScheduler.flush for the tasks of any client.
Scheduler_flush(set, delta) ==
    LET aged == Aged(set, delta)
        Due(task) == task.remaining <= 0
    IN  RunCallbacks(aged, SelectSeq(aged, Due), 1, {}, << >>)

\* The scheduler of a scene that has just been made, with no game on it.
SchedulerInit ==
    /\ CoreIdle
    /\ WebIdle
    /\ SetupIdle
    /\ MctsIdle
    /\ turnManager = << >> /\ tasks = << >> /\ frame = 0 /\ boardSystem = << >>
    /\ observers = {"frame"}
    /\ op = "FrameScheduler.constructor"
    /\ ret = << >>
    /\ nMoves = 0

\* scheduler.schedule(delayMs, action), the handle kept in the place slot.
Schedule(slot, delayMs, callback) ==
    /\ slot \notin TaskIds(tasks)
    /\ op' = "FrameScheduler.schedule"
    /\ ret' = << >>
    /\ tasks' = Append(tasks, [id |-> slot, remaining |-> delayMs,
                               action |-> callback.action,
                               target |-> callback.target])
    /\ UNCHANGED <<nMoves, coreVars, webState, launchSettings, gameConfig,
                   aiManager, mcts, turnManager, frame, boardSystem, observers>>

\* The client calls the cancel function kept in the place slot.
CallCancel(slot) ==
    /\ slot \in TaskIds(tasks)
    /\ op' = "FrameScheduler.cancel"
    /\ ret' = << >>
    /\ tasks' = DeleteTask(tasks, slot)
    /\ UNCHANGED <<nMoves, coreVars, webState, launchSettings, gameConfig,
                   aiManager, mcts, turnManager, frame, boardSystem, observers>>

\* FrameScheduler.dispose: the observer of the frames is removed and the
\* tasks are cleared.  The handles the client keeps stay callable, and
\* schedule still adds a task, which no frame flushes.
SchedulerDispose ==
    /\ op' = "FrameScheduler.dispose"
    /\ ret' = << >>
    /\ tasks' = << >>
    /\ observers' = observers \ {"frame"}
    /\ UNCHANGED <<nMoves, coreVars, webState, launchSettings, gameConfig,
                   aiManager, mcts, turnManager, frame, boardSystem>>

\* A frame of 250 ms, while the observer is registered.
SchedulerFlush ==
    /\ "frame" \in observers
    /\ tasks # << >>
    /\ op' = "FrameScheduler.flush"
    /\ \E after \in {Scheduler_flush(tasks, 250)} :
          /\ tasks' = after.tasks
          /\ ret' = after.ran
    /\ frame' = 1 - frame
    /\ UNCHANGED <<nMoves, coreVars, webState, launchSettings, gameConfig,
                   aiManager, mcts, turnManager, boardSystem, observers>>

SchedulerNext ==
    \/ \E slot \in Slots : \E delayMs \in Delays : \E callback \in Callbacks :
          Schedule(slot, delayMs, callback)
    \/ \E slot \in Slots : CallCancel(slot)
    \/ SchedulerFlush
    \/ SchedulerDispose

SchedulerSpec == SchedulerInit /\ [][SchedulerNext]_vars

\* C38 (as stated): a scheduled task whose cancel function is called before
\* its action has started is never executed: a task the client has cancelled
\* is no longer in the set and is not run by a later flush, and no flush runs
\* a task that the action of another task of the same flush has cancelled.
C38_CancelledTaskNeverRuns ==
    [][/\ \A slot \in Slots : CallCancel(slot) => slot \notin TaskIds(tasks')
       /\ op' = "FrameScheduler.flush" =>
            /\ \A i \in 1..Len(ret') :
                  /\ ret'[i].id \in TaskIds(tasks)
                  /\ ~ret'[i].cancelled]_vars


\* A human move attempt or a task of engageAI that got a move has just ended.
MoveAttempted ==
    \/ op = "GameScene.handleMove"
    \/ /\ op = "FrameScheduler.flush"
       /\ \E i \in 1..Len(ret) : ret[i].action = "ai" /\ ret[i].outcome # "none"

\* C39: after every human move attempt and every task of engageAI, the cells
\* that hold a piece mesh in the board view are the cells that hold a piece
\* in the game state: the view shows no move that the game logic rejected.
\* (The active highlights, the cells onHighlight is called with, are always
\* among the valid moves of the selected piece.)
C39_ViewShowsTheState ==
    /\ MoveAttempted => boardSystem[1].pieceMeshes = OccupiedCells(board)
    /\ boardSystem[1].activeHighlights \subseteq KeysOf(validMoves)

\* C39 happens: the human has moved a piece from (-1, 5) to (-1, 4) by a click
\* on a highlight, the agent has answered with a move, and the view holds the
\* pieces where the state holds them.
C39_Witness ==
    /\ op = "FrameScheduler.flush"
    /\ \E i \in 1..Len(ret) : ret[i].action = "ai" /\ ret[i].outcome = "moved"
    /\ nMoves = 2
    /\ nImports = 0
    /\ board[<<-1, 4>>] = SOUTH
    /\ board[<<-1, 5>>] = NONE
    /\ <<-1, 4>> \in boardSystem[1].pieceMeshes
    /\ <<-1, 5>> \notin boardSystem[1].pieceMeshes
    /\ toKey(aiMove[1].to) \in boardSystem[1].pieceMeshes
    /\ toKey(aiMove[1].from) \notin boardSystem[1].pieceMeshes

=============================================================================
